---- MODULE Spec2Model ----
(***************************************************************************)
(* Web Watcher: the filesystem job queue (watcher.js), the concurrency     *)
(* limiter, the session context map and the worker's processRequest,       *)
(* modelled as one state machine.  Every action is one run-to-completion   *)
(* segment of the Node.js event loop: from the resumption of an await (or  *)
(* the firing of an event or setImmediate callback) to the next await.     *)
(***************************************************************************)
EXTENDS Integers, Sequences, FiniteSets, TLC

(***************************************************************************)
(* Bounds of the model.                                                    *)
(***************************************************************************)
\* number of request files delivered to requests/ (one add-handler each)
MaxFiles == 2
\* largest value of the CONCURRENCY setting that is explored
MaxLimit == 2
\* number of clickable candidates in the document of a page
MaxCandidates == 2
\* number of muteHeuristic actions run against one page
MaxMuteActions == 2
\* largest intervalMs, largest timeoutMs and latest time of the first paint of a
\* canvas, in units of time, for waitForCanvasPaint
MaxInterval == 3
MaxTimeout == 3
MaxPaintAt == 4
\* number of elements of the page performExtracts runs against, and number of
\* extraction specs of a request
MaxElements == 2
MaxSpecs == 2
MaxPixels == 2
MaxWrites == 3
MaxActions == 2

Handlers == 1..MaxFiles

(***************************************************************************)
(* JSON values of the fields the watcher reads from a request file.        *)
(***************************************************************************)
Undefined == [t |-> "undefined"]
JString(s) == [t |-> "string", s |-> s]
JNumber(n) == [t |-> "number", n |-> n]
JBool(b) == [t |-> "boolean", b |-> b]
JNull == [t |-> "null"]
JObject(o) == [t |-> "object", o |-> o]
\* a JSON array, as the sequence of its elements
JArray(a) == [t |-> "array", a |-> a]

\* JavaScript truthiness of a field value (raw.id || ..., !raw.url, ...)
Truthy(v) ==
    CASE v.t = "undefined" -> FALSE
      [] v.t = "string"    -> v.s # ""
      [] v.t = "number"    -> v.n # 0
      [] v.t = "boolean"   -> v.b
      [] v.t = "null"      -> FALSE
      [] v.t = "object"    -> TRUE
      [] v.t = "array"     -> TRUE

\* String(v) for a truthy value
ToStr(v) == IF v.t = "string" THEN v.s ELSE ToString(v.n)

\* the k-th value uuidv4() returns inside handler h: fresh for every call
uuidv4(h, k) == "uuid-" \o ToString(h) \o "-" \o ToString(k)

(***************************************************************************)
(* Contents of request files.  json = "unparsable": JSON.parse throws;     *)
(* json = "null": the file holds the JSON value null; json = "object": a   *)
(* record with the fields below; opts holds the output options.            *)
(***************************************************************************)
\* the output options of a request: the fields normalizeRequest gives defaults to
Opts(vViewport, vFullPage, vWaitUntil, vTimeoutMs, vScreenshot, vHtmlOutput) ==
    [viewport |-> vViewport, fullPage |-> vFullPage, waitUntil |-> vWaitUntil,
     timeoutMs |-> vTimeoutMs, screenshot |-> vScreenshot, htmlOutput |-> vHtmlOutput]

\* a request that carries none of the options
NoOpts == Opts(Undefined, Undefined, Undefined, Undefined, Undefined, Undefined)

\* the fields of a request that steer the steps of processRequest
JobOpts(vAgent, vHeaders, vWait, vActions, vExtract, vConsole, vNetwork, vSnap) ==
    [userAgent |-> vAgent, extraHeaders |-> vHeaders, postWaitMs |-> vWait,
     actions |-> vActions, extract |-> vExtract, captureConsole |-> vConsole,
     captureNetwork |-> vNetwork, screenshotOnEachAction |-> vSnap]

\* a request that carries none of them
NoJobOpts == JobOpts(Undefined, Undefined, Undefined, Undefined, Undefined, Undefined,
                     Undefined, Undefined)

RawObject(vId, vOp, vUrl, vHtml, vSessionId) ==
    [json |-> "object", id |-> vId, op |-> vOp, url |-> vUrl, html |-> vHtml,
     sessionId |-> vSessionId, opts |-> NoOpts, job |-> NoJobOpts]

\* the request r with the options o added
WithOpts(r, o) == [r EXCEPT !.opts = o]

\* the request r with the job options j added
WithJobOpts(r, j) == [r EXCEPT !.job = j]

RawUnparsable == [json |-> "unparsable"]
RawNull == [json |-> "null"]
RawEmptyObject == RawObject(Undefined, Undefined, Undefined, Undefined, Undefined)

\* the files clients drop into requests/: well-formed requests with and without
\* a sessionId and an id, and files that fail JSON.parse or normalizeRequest
Raws ==
    { RawObject(JString("a"), JString("render_html"), Undefined, JString("<h1>"), Undefined),
      RawObject(JString("a"), JString("render_url"), JString("http://x"), Undefined, JString("s")),
      RawObject(Undefined, JString("render_html"), Undefined, JString("<h1>"), JString("s")),
      RawUnparsable,
      RawNull,
      RawObject(JString("a"), JString("screenshot"), Undefined, Undefined, Undefined),
      RawObject(JNumber(7), JString("render_url"), Undefined, Undefined, Undefined),
      RawObject(Undefined, Undefined, Undefined, Undefined, Undefined) }

\* the files the watcher is checked on under shutdown and lost races: a well-formed
\* request, and two that fail validation (with the same id and with a numeric id)
WatcherRaws ==
    { RawObject(JString("a"), JString("render_html"), Undefined, JString("<h1>"), Undefined),
      RawObject(JString("a"), JString("screenshot"), Undefined, Undefined, Undefined),
      RawObject(JNumber(7), JString("render_url"), Undefined, Undefined, Undefined) }

\* a burst of distinct well-formed requests: no id (one is generated), no session
BurstRaws ==
    { RawObject(Undefined, JString("render_html"), Undefined, JString("<h1>"), Undefined) }

\* the files the claim manager is checked on: a well-formed one, an unparsable
\* one, and two that fail validation (with a string id and with a numeric id)
InboxRaws ==
    { RawObject(JString("a"), JString("render_url"), JString("http://x"), Undefined, JString("s")),
      RawUnparsable,
      RawObject(JString("a"), JString("screenshot"), Undefined, Undefined, Undefined),
      RawObject(JNumber(7), JString("render_url"), Undefined, Undefined, Undefined) }

\* a burst of distinct well-formed requests that all name the session "s"
SessionRaws ==
    { RawObject(Undefined, JString("render_html"), Undefined, JString("<h1>"), JString("s")) }

\* an element of req.actions: its type ("": none) and the fields the kinds read
ActionOf(vType, vSelector, vText, vX, vY, vMs, vFn, vKey) ==
    [type |-> vType, selector |-> vSelector, text |-> vText, x |-> vX, y |-> vY, ms |-> vMs,
     fn |-> vFn, key |-> vKey]

\* an action of type vType that carries every field
Action(vType) ==
    ActionOf(vType, JString("#a"), JString("t"), JNumber(1), JNumber(2), JNumber(0),
             JString("() => true"), JString("Enter"))

\* an action of type vType without any field
BareAction(vType) ==
    ActionOf(vType, Undefined, Undefined, Undefined, Undefined, Undefined, Undefined, Undefined)

\* an element of req.extract
ExtractSpec(vType, vAll) == [type |-> vType, all |-> vAll]

\* requests that use the job options: a user agent, extra headers, a post-load
PostWaitValues ==
    {JNull, JNumber(-5), JNumber(1), JNumber(300000), JNumber(300001), JNumber(400000)}

\* delay, two actions with and without step snapshots, an extraction, captured
\* logs; a request with an empty header object and an empty action list; and a
\* request without any of them
JobRaws ==
    { WithJobOpts(RawObject(Undefined, JString("render_html"), Undefined, JString("<h1>"),
                            Undefined),
                  JobOpts(JString("ua"), JObject([accept |-> "text/html"]), JNumber(100),
                          JArray(<<Action("click"), Action("screenshotElement")>>),
                          JArray(<<ExtractSpec("text", FALSE)>>),
                          JBool(TRUE), JBool(TRUE), vSnap)) :
        vSnap \in {JBool(TRUE), Undefined} }
    \cup
    { WithJobOpts(RawObject(Undefined, JString("render_url"), JString("http://x"), Undefined,
                            Undefined),
                  JobOpts(JString(""), JObject(<< >>), JNumber(0), JArray(<< >>), JNull,
                          JBool(TRUE), Undefined, JBool(TRUE))),
      RawObject(Undefined, JString("render_html"), Undefined, JString("<h1>"), Undefined) }
    \cup
    { WithJobOpts(RawObject(Undefined, JString("render_html"), Undefined, JString("<h1>"),
                            Undefined),
                  JobOpts(Undefined, Undefined, vWait, JArray(<<Action("click")>>), Undefined,
                          Undefined, Undefined, Undefined)) :
        vWait \in PostWaitValues }

\* actions found in request files: well formed, of an unknown type, without
\* type, without the field their kind needs, with a field of the wrong type
ActionValues ==
    { Action("click"), Action("scroll"), BareAction(""), BareAction("click"),
      [Action("clickAt") EXCEPT !.y = JString("2")],
      [Action("type") EXCEPT !.text = JNumber(5)],
      BareAction("muteHeuristic") }

RECURSIVE ActionLists(_)
ActionLists(n) ==
    IF n = 0 THEN {<< >>}
    ELSE ActionLists(n - 1)
         \cup { Append(as, a) : as \in { l \in ActionLists(n - 1) : Len(l) = n - 1 },
                                a \in ActionValues }

\* requests with such action lists, with and without step snapshots
ActionRaws ==
    { WithJobOpts(RawObject(Undefined, JString("render_html"), Undefined, JString("<h1>"),
                            Undefined),
                  JobOpts(Undefined, Undefined, Undefined, JArray(as), Undefined, Undefined,
                          Undefined, vSnap)) :
        as \in ActionLists(MaxActions) \ {<< >>}, vSnap \in {JBool(TRUE), Undefined} }

\* values of the option fields found in request files: absent, well typed, and
\* of another JSON type than the one documented
OptionValues ==
    [viewport   |-> {Undefined, JNull,
                     JObject([width |-> 800, height |-> 600, deviceScaleFactor |-> 2])},
     fullPage   |-> {Undefined, JBool(TRUE), JBool(FALSE), JNumber(0)},
     waitUntil  |-> {Undefined, JString(""), JString("load")},
     timeoutMs  |-> {Undefined, JNull, JNumber(0), JNumber(5000)},
     screenshot |-> {Undefined, JBool(FALSE), JString("no")},
     htmlOutput |-> {Undefined, JBool(TRUE), JBool(FALSE)}]

\* the files normalizeRequest is checked on: every op, with and without url and
\* html; a well-formed request with every combination of option values; null; a
\* file that is not JSON
NormalizeRaws ==
    { RawObject(JString("a"), vOp, vUrl, vHtml, Undefined) :
        vOp \in {Undefined, JString("render_url"), JString("render_html"), JString("screenshot")},
        vUrl \in {Undefined, JString(""), JString("http://x")},
        vHtml \in {Undefined, JString(""), JString("<h1>")} }
    \cup
    { WithOpts(RawObject(JString("a"), JString("render_url"), JString("http://x"), Undefined,
                         Undefined),
               Opts(vViewport, vFullPage, vWaitUntil, vTimeoutMs, vScreenshot, vHtmlOutput)) :
        vViewport \in OptionValues.viewport,
        vFullPage \in OptionValues.fullPage,
        vWaitUntil \in OptionValues.waitUntil,
        vTimeoutMs \in OptionValues.timeoutMs,
        vScreenshot \in OptionValues.screenshot,
        vHtmlOutput \in OptionValues.htmlOutput }
    \cup {RawNull, RawUnparsable}

NoRaw == [json |-> "none"]

(***************************************************************************)
(* readJSON and normalizeRequest.  Both return a result record: either     *)
(* [ok |-> TRUE, ...] or [ok |-> FALSE, message |-> the thrown message].   *)
(***************************************************************************)
\* readJSON(filePath): fs.readFile then JSON.parse
readJSON(present, rec) ==
    IF ~present THEN [ok |-> FALSE, message |-> "ENOENT: no such file or directory"]
    ELSE IF rec.json = "unparsable"
         THEN [ok |-> FALSE, message |-> "Unexpected token in JSON"]
         ELSE [ok |-> TRUE, raw |-> rec]

\* normalizeRequest with the two payload checks left out
ValidOpNoPayloadCheck(rec) ==
    rec.op \in {JString("render_url"), JString("render_html")}

\* the three validation throws of normalizeRequest pass
ValidOp(rec) ==
    /\ rec.op \in {JString("render_url"), JString("render_html")}
    /\ (rec.op = JString("render_url") => Truthy(rec.url))
    /\ (rec.op = JString("render_html") => Truthy(rec.html))

ValidationMessage(rec) ==
    IF rec.op \notin {JString("render_url"), JString("render_html")}
    THEN "op must be render_url or render_html"
    ELSE IF rec.op = JString("render_url")
         THEN "url is required for op=render_url"
         ELSE "html is required for op=render_html"

\* { width: 1280, height: 800, deviceScaleFactor: 1 }
DefaultViewport == [width |-> 1280, height |-> 800, deviceScaleFactor |-> 1]
DefaultTimeoutMs == 30000

\* raw.x || d
OrElse(v, d) == IF Truthy(v) THEN v ELSE d
\* raw.timeoutMs || 30000 in place of raw.timeoutMs ?? 30000
CoalesceAsOr(v, d) == IF Truthy(v) THEN v ELSE d
\* raw.x ?? d
Coalesce(v, d) == IF v \in {Undefined, JNull} THEN d ELSE v
\* raw.x !== undefined ? !!raw.x : true
BoolOrTrue(v) == IF v # Undefined THEN JBool(Truthy(v)) ELSE JBool(TRUE)
\* Array.isArray(raw.x) ? raw.x : undefined
ArrayOrUndefined(v) == IF v.t = "array" THEN v ELSE Undefined

\* normalizeRequest(raw), called by handler h
normalizeRequest(rec, h) ==
    IF rec.json = "null"
    THEN [ok |-> FALSE, message |-> "Cannot read properties of null (reading 'id')"]
    ELSE IF ~ValidOp(rec)
         THEN [ok |-> FALSE, message |-> ValidationMessage(rec)]
         ELSE [ok |-> TRUE,
               id |-> IF Truthy(rec.id) THEN ToStr(rec.id) ELSE uuidv4(h, 1),
               op |-> rec.op.s,
               sessionId |-> IF Truthy(rec.sessionId) THEN ToStr(rec.sessionId) ELSE "",
               viewport |-> OrElse(rec.opts.viewport, JObject(DefaultViewport)),
               fullPage |-> BoolOrTrue(rec.opts.fullPage),
               waitUntil |-> OrElse(rec.opts.waitUntil, JString("networkidle2")),
               timeoutMs |-> Coalesce(rec.opts.timeoutMs, JNumber(DefaultTimeoutMs)),
               screenshot |-> BoolOrTrue(rec.opts.screenshot),
               htmlOutput |-> BoolOrTrue(rec.opts.htmlOutput),
               userAgent |-> rec.job.userAgent,
               extraHeaders |-> rec.job.extraHeaders,
               postWaitMs |-> rec.job.postWaitMs,
               actions |-> ArrayOrUndefined(rec.job.actions),
               extract |-> ArrayOrUndefined(rec.job.extract),
               captureConsole |-> JBool(Truthy(rec.job.captureConsole)),
               captureNetwork |-> JBool(Truthy(rec.job.captureNetwork)),
               screenshotOnEachAction |-> JBool(Truthy(rec.job.screenshotOnEachAction))]

\* the handler's `req` before normalizeRequest returned
NoReq == [ok |-> FALSE, message |-> ""]

\* req: the request a handler works on once normalizeRequest returned
Req(rec, h) == normalizeRequest(rec, h)

(***************************************************************************)
(* Identifiers and file contents.                                          *)
(***************************************************************************)
SessionIds == {"s"}

\* the value uuidv4() returns inside the client call that writes file h
clientUuid(h) == "uuid-c-" \o ToString(h)

Ids == {"a", "7"} \cup {uuidv4(h, k) : h \in Handlers, k \in 1..2}
       \cup {clientUuid(h) : h \in Handlers}

\* a file that does not exist
NoFile == [exists |-> FALSE]

\* the message of puppeteer's TimeoutError for page.goto / page.setContent
NavigationTimeout == "Navigation timeout of 30000 ms exceeded"
\* message of an error whose message is the empty string, and a non-empty one
Messages == {"", NavigationTimeout}
\* the value of `errorMessage` before any catch assigned it
NoError == "<undefined>"

(***************************************************************************)
(* State.                                                                  *)
(***************************************************************************)
VARIABLES
    limit,            \* CONCURRENCY, fixed at start-up
    shuttingDown,     \* main: let shuttingDown
    stopPc,           \* position of stop(): "idle", "closingWatcher", "closingBrowser", "bye"
    watcherOpen,      \* the chokidar watcher still emits 'add'
    browserOpen,      \* the shared puppeteer browser is usable
    executingAtStop,  \* the handlers whose task was executing when stop() was called
    raw,              \* raw[h]: content of the h-th delivered request file
    inbox,            \* the delivered files that currently exist in requests/
    processing,       \* processing[id]: the file at requests/processing/<id>.json (0: none)
    pc,               \* pc[h]: position of the add-handler of file h and of its task
    id,               \* id[h]: req.id (task) or id (error path) of handler h, "" while unset
    msg,              \* msg[h]: message caught by the handler's outer catch
    req,              \* req[h]: the handler's `req`, what normalizeRequest returned
    rejected,         \* rejected[h]: the promise item.fn() returned for the task rejects
    active,           \* createLimiter: let active
    queue,            \* createLimiter: const queue (handlers whose task waits)
    pendingRunNext,   \* number of setImmediate(runNext) callbacks not yet run
    sessionContexts,  \* main: const sessionContexts (0: no entry)
    browserContexts,  \* the incognito contexts created on the browser, as <<sessionId, creator>>
    context,          \* context[h]: the task's local `context` (0: undefined)
    page,             \* page[h]: "none", "open" or "closed" (page.close() was awaited)
    step,             \* step[h]: index in Program(req[h]) of the operation awaited inside try
    errorMessage,     \* errorMessage[h]: processRequest's local errorMessage
    outDirs,          \* the directories responses/<id>/ that exist
    meta,             \* meta[id]: content of responses/<id>/meta.json
    done,             \* done[id]: content of responses/<id>/done.json
    artifacts,        \* artifacts[id]: the other files that exist in responses/<id>/
    consoleEvents,    \* consoleEvents[h]: processRequest's consoleEvents is non-empty
    networkEvents,    \* networkEvents[h]: processRequest's networkEvents is non-empty
    document,         \* the clickable candidates of a page, in document order
    now,              \* Date.now(), in units of time
    paintAt,          \* the time from which the canvas of the page has painted pixels
    timeoutMs,        \* waitForCanvasPaint: parameter timeoutMs
    intervalMs,       \* waitForCanvasPaint: parameter intervalMs
    t0,               \* waitForCanvasPaint: const t0
    wake,             \* the time at which the pending setTimeout(r, intervalMs) fires
    waitPc,           \* waitForCanvasPaint: "idle", "evaluate", "sleep", "returned", "threw"
    elements,         \* the elements of the page performExtracts runs against, in document order
    specs,            \* performExtracts: parameter specs
    extracted,        \* processRequest: const extracted (NotRun before performExtracts returned)
    clientOpts,       \* clientOpts[h]: the opts of the renderURL/renderHTML call that wrote file h
    clientPc,         \* clientPc[h]: position of that call: "idle", "waitForDone", "readMeta",
                      \*   "resolved", "rejected"
    clientDone,       \* clientDone[h]: what waitForDone returned to that call
    clientError,      \* clientError[h]: message of the Error that call rejected with
    pathJob,          \* the id and the element-snapshot file name of a request whose paths are followed
    written,          \* the paths that job wrote to
    canvas,           \* the first canvas of the page a sample is taken on
    sample,           \* what the sample of waitForCanvasPaint returned
    clicked           \* per muteHeuristic action run on that page: the element page.click hit (0: none)

vars == <<limit, shuttingDown, stopPc, watcherOpen, browserOpen, executingAtStop, raw,
          inbox, processing, pc, id, msg, req, rejected, active, queue, pendingRunNext, sessionContexts,
          browserContexts, context, page, step, errorMessage, outDirs, meta, done,
          artifacts, consoleEvents, networkEvents, document, clicked,
          now, paintAt, timeoutMs, intervalMs, t0, wake, waitPc, elements, specs, extracted,
          clientOpts, clientPc, clientDone, clientError, canvas, sample, pathJob, written>>

\* positions of a handler whose task the limiter dispatched and has not released
TaskPcs == {"createContext", "ensureDir", "writeMeta", "try", "closePage", "rewriteMeta",
            "writeConsoleLog", "writeNetworkLog", "writeDone", "unlinkClaimed", "settle"}

Dispatched(h) == pc[h] \in TaskPcs

limiterVars == <<active, queue, pendingRunNext>>
stopVars == <<shuttingDown, stopPc, watcherOpen, browserOpen, executingAtStop>>
sessionVars == <<sessionContexts, browserContexts, context>>
pageVars == <<page, step, errorMessage>>
outputVars == <<outDirs, meta, done, artifacts>>
inputVars == <<raw, inbox, processing>>
logVars == <<consoleEvents, networkEvents>>
domVars == <<document, clicked>>
canvasVars == <<now, paintAt, timeoutMs, intervalMs, t0, wake, waitPc>>
extractVars == <<elements, specs, extracted>>
clientVars == <<clientOpts, clientPc, clientDone, clientError>>
sampleVars == <<canvas, sample>>
pathVars == <<pathJob, written>>

\* the options of BaseOpts that describe the render (clientTimeoutMs and
\* pollIntervalMs steer the client's wait)
RenderOpts ==
    {"id", "viewport", "fullPage", "waitUntil", "timeoutMs", "userAgent", "extraHeaders",
     "screenshot", "htmlOutput", "postWaitMs", "actions", "sessionId", "extract",
     "captureConsole", "captureNetwork", "screenshotOnEachAction"}

\* opts = {}
NoClientOpts == [f \in RenderOpts |-> Undefined]

\* the value of `extracted` while performExtracts has not returned
NotRun == [t |-> "undefined"]

Init ==
    /\ limit \in 1..MaxLimit
    /\ shuttingDown = FALSE
    /\ stopPc = "idle"
    /\ watcherOpen = TRUE
    /\ browserOpen = TRUE
    /\ executingAtStop = {}
    /\ raw = [h \in Handlers |-> NoRaw]
    /\ inbox = {}
    /\ processing = [i \in Ids |-> 0]
    /\ pc = [h \in Handlers |-> "none"]
    /\ id = [h \in Handlers |-> ""]
    /\ msg = [h \in Handlers |-> ""]
    /\ req = [h \in Handlers |-> NoReq]
    /\ rejected = [h \in Handlers |-> FALSE]
    /\ active = 0
    /\ queue = << >>
    /\ pendingRunNext = 0
    /\ sessionContexts = [s \in SessionIds |-> 0]
    /\ browserContexts = {}
    /\ context = [h \in Handlers |-> 0]
    /\ page = [h \in Handlers |-> "none"]
    /\ step = [h \in Handlers |-> 0]
    /\ errorMessage = [h \in Handlers |-> NoError]
    /\ outDirs = {}
    /\ meta = [i \in Ids |-> NoFile]
    /\ done = [i \in Ids |-> NoFile]
    /\ artifacts = [i \in Ids |-> {}]
    /\ consoleEvents = [h \in Handlers |-> FALSE]
    /\ networkEvents = [h \in Handlers |-> FALSE]
    /\ document = << >>
    /\ clicked = << >>
    /\ now = 0
    /\ paintAt = 0
    /\ timeoutMs = 0
    /\ intervalMs = 0
    /\ t0 = 0
    /\ wake = 0
    /\ waitPc = "idle"
    /\ elements = << >>
    /\ specs = << >>
    /\ extracted = NotRun
    /\ clientOpts = [h \in Handlers |-> NoClientOpts]
    /\ clientPc = [h \in Handlers |-> "idle"]
    /\ clientDone = [h \in Handlers |-> NoFile]
    /\ clientError = [h \in Handlers |-> NoError]
    /\ canvas = [t |-> "null"]
    /\ pathJob = [t |-> "undefined"]
    /\ written = {}
    /\ sample = [t |-> "undefined"]

(***************************************************************************)
(* The environment: clients drop request files; files may be removed from  *)
(* requests/ by somebody else (scripts/clean.mjs, a client giving up).     *)
(***************************************************************************)
\* the h-th request file, with content r, is renamed into requests/
WriteRequest(h, r) ==
    /\ pc[h] = "none"
    /\ \A g \in Handlers : g < h => pc[g] # "none"
    /\ raw' = [raw EXCEPT ![h] = r]
    /\ inbox' = inbox \cup {h}
    /\ pc' = [pc EXCEPT ![h] = "new"]
    /\ UNCHANGED <<limit, pathVars, sampleVars, extractVars, canvasVars, domVars, logVars, stopVars, processing, id, msg, req, rejected, limiterVars, sessionVars,
                   pageVars, outputVars>>

\* a client other than the helper writes the h-th request file into requests/
Deliver(h, r) == WriteRequest(h, r) /\ UNCHANGED clientVars

\* a request file is removed from requests/ from outside the watcher while its
\* handler is between two of its own accesses to the file
Vanish(h) ==
    /\ h \in inbox
    /\ pc[h] \in {"readJSON", "rename", "errReadJSON"}
    /\ inbox' = inbox \ {h}
    /\ UNCHANGED <<limit, pathVars, sampleVars, clientVars, extractVars, canvasVars, domVars, logVars, stopVars, raw, processing, pc, id, msg, req, rejected, limiterVars,
                   sessionVars, pageVars, outputVars>>

(***************************************************************************)
(* stop(): SIGINT / SIGTERM.                                               *)
(***************************************************************************)
\* if (shuttingDown) return; shuttingDown = true; await watcher.close()
Stop ==
    /\ ~shuttingDown
    /\ shuttingDown' = TRUE
    /\ stopPc' = "closingWatcher"
    /\ executingAtStop' = {h \in Handlers : Dispatched(h)}
    /\ UNCHANGED <<limit, pathVars, sampleVars, clientVars, extractVars, canvasVars, domVars, logVars, watcherOpen, browserOpen, inputVars, pc, id, msg, req, rejected, limiterVars,
                   sessionVars, pageVars, outputVars>>

\* watcher.close() settled; await browser.close()
StopWatcherClosed ==
    /\ stopPc = "closingWatcher"
    /\ watcherOpen' = FALSE
    /\ stopPc' = "closingBrowser"
    /\ UNCHANGED <<limit, pathVars, sampleVars, clientVars, extractVars, canvasVars, domVars, logVars, shuttingDown, browserOpen, executingAtStop, inputVars, pc, id, msg, req, rejected, limiterVars,
                   sessionVars, pageVars, outputVars>>

\* browser.close() settled
StopBrowserClosed ==
    /\ stopPc = "closingBrowser"
    /\ browserOpen' = FALSE
    /\ stopPc' = "bye"
    /\ executingAtStop' = {}
    /\ UNCHANGED <<limit, pathVars, sampleVars, clientVars, extractVars, canvasVars, domVars, logVars, shuttingDown, watcherOpen, inputVars, pc, id, msg, req, rejected, limiterVars,
                   sessionVars, pageVars, outputVars>>

(***************************************************************************)
(* watcher.on('add'): the claim manager.                                   *)
(***************************************************************************)
\* the 'add' event of file h: if (shuttingDown) return; await readJSON(filePath)
Add(h) ==
    /\ pc[h] = "new"
    /\ watcherOpen
    /\ pc' = [pc EXCEPT ![h] = IF shuttingDown THEN "skipped" ELSE "readJSON"]
    /\ UNCHANGED <<limit, pathVars, sampleVars, clientVars, extractVars, canvasVars, domVars, logVars, stopVars, inputVars, id, msg, req, rejected, limiterVars, sessionVars, pageVars,
                   outputVars>>

\* readJSON settled; normalizeRequest(raw); await fs.rename(filePath, claimedPath),
\* or the outer catch: await readJSON(filePath).catch(() => ({}))
ReadDone(h) ==
    /\ pc[h] = "readJSON"
    /\ LET r == readJSON(h \in inbox, raw[h])
           n == normalizeRequest(raw[h], h)
       IN  IF r.ok /\ n.ok
           THEN /\ id' = [id EXCEPT ![h] = n.id]
                /\ req' = [req EXCEPT ![h] = n]
                /\ pc' = [pc EXCEPT ![h] = "rename"]
                /\ msg' = msg
           ELSE /\ msg' = [msg EXCEPT ![h] = IF r.ok THEN n.message ELSE r.message]
                /\ pc' = [pc EXCEPT ![h] = "errReadJSON"]
                /\ UNCHANGED <<id, req>>
    /\ UNCHANGED <<limit, pathVars, sampleVars, clientVars, extractVars, canvasVars, domVars, logVars, stopVars, inputVars, rejected, limiterVars, sessionVars, pageVars,
                   outputVars>>

\* enqueue without its setImmediate(runNext)
enqueueNoRunNext(h) ==
    /\ queue' = Append(queue, h)
    /\ UNCHANGED <<active, pendingRunNext>>

\* enqueue(fn): queue.push({fn, resolve, reject}); setImmediate(runNext)
enqueue(h) ==
    /\ queue' = Append(queue, h)
    /\ pendingRunNext' = pendingRunNext + 1
    /\ UNCHANGED active

\* fs.rename settled (moved the file, or threw and was swallowed); then enqueue
RenameDone(h) ==
    /\ pc[h] = "rename"
    /\ IF h \in inbox
       THEN /\ inbox' = inbox \ {h}
            /\ processing' = [processing EXCEPT ![id[h]] = h]
       ELSE UNCHANGED <<inbox, processing>>
    /\ enqueue(h)
    /\ pc' = [pc EXCEPT ![h] = "queued"]
    /\ UNCHANGED <<limit, pathVars, sampleVars, clientVars, extractVars, canvasVars, domVars, logVars, stopVars, raw, id, msg, req, rejected, sessionVars, pageVars, outputVars>>

(***************************************************************************)
(* The outer catch of the add-handler: synthetic error artifacts.          *)
(***************************************************************************)
\* raw?.id || uuidv4(), as read by the catch block of handler h
ErrorPathId(r, h) ==
    IF r.json = "object" /\ Truthy(r.id) THEN r.id ELSE JString(uuidv4(h, 2))

\* the second readJSON settled; id; path.join(RESPONSES_DIR, id) throws a TypeError
\* unless id is a string; await ensureDir(outDir)
ErrReadDone(h) ==
    /\ pc[h] = "errReadJSON"
    /\ LET r == readJSON(h \in inbox, raw[h])
           again == IF r.ok THEN r.raw ELSE RawEmptyObject
           eid == ErrorPathId(again, h)
       IN  IF eid.t = "string"
           THEN /\ id' = [id EXCEPT ![h] = eid.s]
                /\ pc' = [pc EXCEPT ![h] = "errEnsureDir"]
           ELSE /\ pc' = [pc EXCEPT ![h] = "errUnlink"]
                /\ id' = id
    /\ UNCHANGED <<limit, pathVars, sampleVars, clientVars, extractVars, canvasVars, domVars, logVars, stopVars, inputVars, msg, req, rejected, limiterVars, sessionVars,
                   pageVars, outputVars>>

\* ensureDir(outDir) settled; await writeJSONAtomic(meta.json)
ErrEnsureDir(h) ==
    /\ pc[h] = "errEnsureDir"
    /\ outDirs' = outDirs \cup {id[h]}
    /\ pc' = [pc EXCEPT ![h] = "errWriteMeta"]
    /\ UNCHANGED <<limit, pathVars, sampleVars, clientVars, extractVars, canvasVars, domVars, logVars, stopVars, inputVars, id, msg, req, rejected, limiterVars, sessionVars, pageVars,
                   meta, done, artifacts>>

\* meta.json renamed into place; await writeJSONAtomic(done.json)
ErrWriteMeta(h) ==
    /\ pc[h] = "errWriteMeta"
    /\ meta' = [meta EXCEPT ![id[h]] =
                  [exists |-> TRUE, finishedAt |-> TRUE, hadError |-> TRUE,
                   errorMessage |-> msg[h]]]
    /\ pc' = [pc EXCEPT ![h] = "errWriteDone"]
    /\ UNCHANGED <<limit, pathVars, sampleVars, clientVars, extractVars, canvasVars, domVars, logVars, stopVars, inputVars, id, msg, req, rejected, limiterVars, sessionVars, pageVars,
                   outDirs, done, artifacts>>

\* done.json renamed into place; await fs.unlink(filePath)
ErrWriteDone(h) ==
    /\ pc[h] = "errWriteDone"
    /\ done' = [done EXCEPT ![id[h]] =
                  [exists |-> TRUE, status |-> "error", error |-> msg[h]]]
    /\ pc' = [pc EXCEPT ![h] = "errUnlink"]
    /\ UNCHANGED <<limit, pathVars, sampleVars, clientVars, extractVars, canvasVars, domVars, logVars, stopVars, inputVars, id, msg, req, rejected, limiterVars, sessionVars, pageVars,
                   outDirs, meta, artifacts>>

\* fs.unlink(filePath) settled (ENOENT swallowed); the handler returns
ErrUnlink(h) ==
    /\ pc[h] = "errUnlink"
    /\ inbox' = inbox \ {h}
    /\ pc' = [pc EXCEPT ![h] = "handled"]
    /\ UNCHANGED <<limit, pathVars, sampleVars, clientVars, extractVars, canvasVars, domVars, logVars, stopVars, raw, processing, id, msg, req, rejected, limiterVars,
                   sessionVars, pageVars, outputVars>>

(***************************************************************************)
(* createLimiter: runNext, and the start of the task it dispatches.        *)
(***************************************************************************)
\* runNext with the guard off by one: if (active > limit) return
LimitReachedOffByOne == active > limit

\* if (active >= limit) return
LimitReached == active >= limit

\* queue.pop() in place of queue.shift(): the newest item is taken
ShiftNewest(q) == [item |-> q[Len(q)], rest |-> SubSeq(q, 1, Len(q) - 1)]

\* queue.shift(): the item taken and the queue left
Shift(q) == [item |-> Head(q), rest |-> Tail(q)]

\* item.fn(): the task of handler h runs up to its first await: an unknown
\* sessionId awaits browser.createIncognitoBrowserContext(), otherwise
\* processRequest awaits ensureDir; a task that is not the watcher's (no request
\* file) just runs
StartTask(h) ==
    IF raw[h] = NoRaw
    THEN /\ pc' = [pc EXCEPT ![h] = "running"]
         /\ context' = context
    ELSE LET sid == Req(raw[h], h).sessionId
         IN  IF sid # "" /\ sessionContexts[sid] = 0
             THEN /\ pc' = [pc EXCEPT ![h] = "createContext"]
                  /\ context' = context
             ELSE /\ pc' = [pc EXCEPT ![h] = "ensureDir"]
                  /\ context' = [context EXCEPT ![h] =
                                    IF sid # "" THEN sessionContexts[sid] ELSE 0]

\* one setImmediate(runNext) callback
RunNext ==
    /\ pendingRunNext > 0
    /\ pendingRunNext' = pendingRunNext - 1
    /\ \/ /\ LimitReached
          /\ UNCHANGED <<active, queue, pc, context>>
       \/ /\ ~LimitReached
          /\ queue = << >>
          /\ UNCHANGED <<active, queue, pc, context>>
       \/ /\ ~LimitReached
          /\ queue # << >>
          /\ queue' = Shift(queue).rest
          /\ active' = active + 1
          /\ StartTask(Shift(queue).item)
    /\ UNCHANGED <<limit, pathVars, sampleVars, clientVars, extractVars, canvasVars, domVars, logVars, stopVars, inputVars, id, msg, req, rejected, sessionContexts, browserContexts,
                   pageVars, outputVars>>

\* browser.createIncognitoBrowserContext() returned; sessionContexts.set;
\* processRequest: await ensureDir(outDir)
CreateContextReturn(h) ==
    /\ pc[h] = "createContext"
    /\ browserOpen
    /\ LET sid == Req(raw[h], h).sessionId
       IN  /\ browserContexts' = browserContexts \cup {<<sid, h>>}
           /\ sessionContexts' = [sessionContexts EXCEPT ![sid] = h]
    /\ context' = [context EXCEPT ![h] = h]
    /\ pc' = [pc EXCEPT ![h] = "ensureDir"]
    /\ UNCHANGED <<limit, pathVars, sampleVars, clientVars, extractVars, canvasVars, domVars, logVars, stopVars, inputVars, id, msg, req, rejected, limiterVars, pageVars, outputVars>>

\* the task's catch re-throws what it caught
TaskCatchRethrows(e) == e

\* catch (err) of the task, entered or not (e): it logs, so no error leaves the task
TaskCatch(e) == FALSE

\* browser.createIncognitoBrowserContext() threw: the task's catch logs, its
\* finally awaits fs.unlink(claimedPath)
CreateContextThrow(h) ==
    /\ pc[h] = "createContext"
    /\ rejected' = [rejected EXCEPT ![h] = TaskCatch(TRUE)]
    /\ pc' = [pc EXCEPT ![h] = "unlinkClaimed"]
    /\ UNCHANGED <<limit, pathVars, sampleVars, clientVars, extractVars, canvasVars, domVars, logVars, stopVars, inputVars, id, msg, req, limiterVars, sessionVars,
                   pageVars, outputVars>>

(***************************************************************************)
(* processRequest.                                                         *)
(***************************************************************************)
\* an operation awaited inside the try block; i is the index of the action it
\* belongs to (0: none)
Step(name) == [op |-> name, i |-> 0]
ActionStep(name, k) == [op |-> name, i |-> k]

\* a step that is a timer of ms milliseconds
TimerStep(name, ms) == [op |-> name, i |-> ms]

\* 5 * 60_000
PostWaitCeiling == 300000

\* a post-load delay that is not clamped
PostWaitUnclamped(ms) == ms

\* Math.min(req.postWaitMs, 5 * 60_000)
PostWaitDelay(ms) == IF ms < PostWaitCeiling THEN ms ELSE PostWaitCeiling

\* the elements of req.actions and req.extract (Array.isArray(...) && length > 0)
ActionsOf(r) == IF r.actions.t = "array" THEN r.actions.a ELSE << >>
ExtractOf(r) == IF r.extract.t = "array" THEN r.extract.a ELSE << >>

\* Object.keys(v) for an object v (an absent value has none)
ObjectKeys(v) == IF v.t = "object" THEN DOMAIN v.o ELSE {}

\* `${"step-"}${String(i + 1).padStart(2, '0')}${suffix}` for the action at index k (from 1)
StepFile(k, suffix) == "step-0" \o ToString(k) \o suffix

\* a runActions whose every action awaits a page operation
PerformsAlways(a) == TRUE

\* the if / else-if chain of runActions: action a enters a branch, which awaits
\* a page operation (a timer for waitForTime)
Performs(a) ==
    \/ a.type \in {"waitForSelector", "click", "hover", "screenshotElement"} /\ Truthy(a.selector)
    \/ a.type = "type" /\ Truthy(a.selector) /\ a.text.t = "string"
    \/ a.type = "clickAt" /\ a.x.t = "number" /\ a.y.t = "number"
    \/ a.type = "waitForTime" /\ a.ms.t = "number"
    \/ a.type = "waitForFunction" /\ Truthy(a.fn)
    \/ a.type \in {"waitForCanvasPaint", "muteHeuristic"}
    \/ a.type = "press" /\ Truthy(a.key)

\* runActions: the operations awaited from action k on: the action itself when
\* it enters a branch, then page.screenshot of the step when snapAfterEach
RECURSIVE ActionSteps(_, _, _)
ActionSteps(as, k, snapAfterEach) ==
    IF k > Len(as) THEN << >>
    ELSE (IF Performs(as[k]) THEN <<ActionStep("action", k)>> ELSE << >>)
         \o (IF snapAfterEach THEN <<ActionStep("stepSnapshot", k)>> ELSE << >>)
         \o ActionSteps(as, k + 1, snapAfterEach)

\* the operations awaited inside the try block of processRequest, in order, for
\* the normalized request r
Program(r) ==
    <<Step("newPage")>>
    \o (IF Truthy(r.userAgent) THEN <<Step("setUserAgent")>> ELSE << >>)
    \o (IF Truthy(r.extraHeaders) /\ ObjectKeys(r.extraHeaders) # {}
        THEN <<Step("setExtraHTTPHeaders")>> ELSE << >>)
    \o <<Step("setViewport"), Step("load")>>
    \o (IF r.postWaitMs.t = "number" /\ r.postWaitMs.n > 0
        THEN <<TimerStep("postWait", PostWaitDelay(r.postWaitMs.n))>> ELSE << >>)
    \o ActionSteps(ActionsOf(r), 1, r.screenshotOnEachAction.b)
    \o (IF r.htmlOutput.b THEN <<Step("content"), Step("writeHtml")>> ELSE << >>)
    \o (IF r.screenshot.b THEN <<Step("screenshot")>> ELSE << >>)
    \o (IF ExtractOf(r) # << >>
        THEN <<Step("performExtracts"), Step("writeExtract")>> ELSE << >>)

\* the operation the task of handler h awaits inside the try block
Awaited(h) == Program(req[h])[step[h]]

\* operations that are calls into the browser
BrowserSteps == {"newPage", "setUserAgent", "setExtraHTTPHeaders", "setViewport", "load",
                 "action", "stepSnapshot", "content", "screenshot", "performExtracts"}

\* operations that settle by a timer alone and never throw
TimerSteps == {"postWait"}

\* the file of responses/<id>/ that exists once step s of request r returned
\* ("": none)
Written(r, s) ==
    CASE s.op = "writeHtml" -> "page.html"
      [] s.op = "screenshot" -> "screenshot.png"
      [] s.op = "writeExtract" -> "extract.json"
      [] s.op = "stepSnapshot" -> StepFile(s.i, ".png")
      [] s.op = "action" /\ ActionsOf(r)[s.i].type = "screenshotElement" ->
             StepFile(s.i, "-element.png")
      [] OTHER -> ""

\* ensureDir(outDir) settled; await writeJSONAtomic(metaPath, meta)
EnsureDir(h) ==
    /\ pc[h] = "ensureDir"
    /\ outDirs' = outDirs \cup {id[h]}
    /\ pc' = [pc EXCEPT ![h] = "writeMeta"]
    /\ UNCHANGED <<limit, pathVars, sampleVars, clientVars, extractVars, canvasVars, domVars, logVars, stopVars, inputVars, id, msg, req, rejected, limiterVars, sessionVars, pageVars,
                   meta, done, artifacts>>

\* the first meta.json (no finishedAt) renamed into place; try: await newPage()
WriteMeta(h) ==
    /\ pc[h] = "writeMeta"
    /\ meta' = [meta EXCEPT ![id[h]] =
                  [exists |-> TRUE, finishedAt |-> FALSE, hadError |-> FALSE,
                   errorMessage |-> NoError]]
    /\ pc' = [pc EXCEPT ![h] = "try"]
    /\ step' = [step EXCEPT ![h] = 1]
    /\ UNCHANGED <<limit, pathVars, sampleVars, clientVars, extractVars, canvasVars, domVars, logVars, stopVars, inputVars, id, msg, req, rejected, limiterVars, sessionVars, page,
                   errorMessage, outDirs, done, artifacts>>

\* processRequest without the finally block: the page is never closed
AfterTryNoClose(h, p) == "rewriteMeta"

\* after the try block: finally awaits page.close() when a page was created,
\* otherwise the second meta.json write is awaited
AfterTry(h, p) == IF p = "open" THEN "closePage" ELSE "rewriteMeta"

\* the awaited operation of the try block returned
StepReturn(h) ==
    /\ pc[h] = "try"
    /\ LET s == Awaited(h)
       IN  /\ s.op \in BrowserSteps => browserOpen
           /\ page' = IF s.op = "newPage" THEN [page EXCEPT ![h] = "open"] ELSE page
           /\ artifacts' =
                 IF Written(req[h], s) # ""
                 THEN [artifacts EXCEPT ![id[h]] = @ \cup {Written(req[h], s)}]
                 ELSE artifacts
    /\ IF step[h] < Len(Program(req[h]))
       THEN /\ step' = [step EXCEPT ![h] = step[h] + 1]
            /\ pc' = pc
       ELSE /\ step' = [step EXCEPT ![h] = 0]
            /\ pc' = [pc EXCEPT ![h] = AfterTry(h, "open")]
    /\ UNCHANGED <<limit, pathVars, sampleVars, clientVars, extractVars, canvasVars, domVars, logVars, stopVars, inputVars, id, msg, req, rejected, limiterVars, sessionVars,
                   errorMessage, outDirs, meta, done>>

\* catch (err): errorMessage = err.message
Caught(m) == m

\* a try block that swallows the error of an awaited operation and goes on
\* with the next one
StepThrowGoesOn(h, m) ==
    /\ pc[h] = "try"
    /\ Awaited(h).op \notin TimerSteps
    /\ step[h] < Len(Program(req[h]))
    /\ errorMessage' = [errorMessage EXCEPT ![h] = Caught(m)]
    /\ step' = [step EXCEPT ![h] = step[h] + 1]
    /\ UNCHANGED <<limit, pathVars, sampleVars, clientVars, extractVars, canvasVars, domVars, logVars, stopVars, inputVars, id, msg, req, rejected, limiterVars, sessionVars,
                   pc, page, outputVars>>

\* the awaited operation of the try block threw an error with message m
StepThrow(h, m) ==
    /\ pc[h] = "try"
    /\ Awaited(h).op \notin TimerSteps
    /\ errorMessage' = [errorMessage EXCEPT ![h] = Caught(m)]
    /\ step' = [step EXCEPT ![h] = 0]
    /\ pc' = [pc EXCEPT ![h] = AfterTry(h, page[h])]
    /\ UNCHANGED <<limit, pathVars, sampleVars, clientVars, extractVars, canvasVars, domVars, logVars, stopVars, inputVars, id, msg, req, rejected, limiterVars, sessionVars,
                   page, outputVars>>

\* try { await page?.close(); } catch {}: the value of errorMessage after it,
\* when close() returned and when it threw
CloseCatch(threw, e) == e

\* page.close() settled, by returning or by throwing;
\* await writeJSONAtomic(metaPath, meta)
ClosePage(h) ==
    /\ pc[h] = "closePage"
    /\ \E threw \in BOOLEAN :
          /\ ~threw => browserOpen
          /\ errorMessage' = [errorMessage EXCEPT ![h] = CloseCatch(threw, @)]
    /\ page' = [page EXCEPT ![h] = "closed"]
    /\ pc' = [pc EXCEPT ![h] = "rewriteMeta"]
    /\ UNCHANGED <<limit, pathVars, sampleVars, clientVars, extractVars, canvasVars, domVars, logVars, stopVars, inputVars, id, msg, req, rejected, limiterVars, sessionVars,
                   step, outputVars>>

\* the test inverted: if (!errorMessage)
HasErrorInverted(e) == ~(e # NoError /\ e # "")

\* if (errorMessage): JavaScript truthiness of the local errorMessage
HasError(e) == e # NoError /\ e # ""

\* page.on('console', ...): the page of handler h logs to its console
ConsoleEvent(h) ==
    /\ page[h] = "open"
    /\ req[h].captureConsole.b
    /\ ~consoleEvents[h]
    /\ consoleEvents' = [consoleEvents EXCEPT ![h] = TRUE]
    /\ UNCHANGED <<limit, pathVars, sampleVars, clientVars, extractVars, canvasVars, domVars, stopVars, inputVars, pc, id, msg, req, rejected, limiterVars,
                   sessionVars, pageVars, outputVars, networkEvents>>

\* page.on('request', ...), page.on('response', ...): the page of handler h
\* sends a request or receives a response
NetworkEvent(h) ==
    /\ page[h] = "open"
    /\ req[h].captureNetwork.b
    /\ ~networkEvents[h]
    /\ networkEvents' = [networkEvents EXCEPT ![h] = TRUE]
    /\ UNCHANGED <<limit, pathVars, sampleVars, clientVars, extractVars, canvasVars, domVars, stopVars, inputVars, pc, id, msg, req, rejected, limiterVars,
                   sessionVars, pageVars, outputVars, consoleEvents>>

\* the log writes of processRequest without their try/catch: a failed write
\* leaves processRequest by a throw, which the task's catch logs
LogsNotCaught(threw, next) == IF threw THEN "unlinkClaimed" ELSE next

\* try { if (...) await writeFileAtomic(console.log.json);
\*       if (...) await writeFileAtomic(network.log.json); } catch {}
\* the position after a log write that returned or threw, `next` being the
\* position after a write that returned
Logs(threw, next) == IF threw THEN "writeDone" ELSE next

\* the position after the log write of console.log.json returned
AfterConsoleLog(h) == IF networkEvents[h] THEN "writeNetworkLog" ELSE "writeDone"

\* the position after the second meta.json write returned
AfterRewriteMeta(h) == IF consoleEvents[h] THEN "writeConsoleLog" ELSE AfterConsoleLog(h)

\* the second meta.json (finishedAt, error fields) renamed into place; await the
\* write of the first captured log, or writeJSONAtomic(donePath, ...)
RewriteMeta(h) ==
    /\ pc[h] = "rewriteMeta"
    /\ meta' = [meta EXCEPT ![id[h]] =
                  [exists |-> TRUE, finishedAt |-> TRUE,
                   hadError |-> HasError(errorMessage[h]),
                   errorMessage |-> IF HasError(errorMessage[h])
                                    THEN errorMessage[h] ELSE NoError]]
    /\ pc' = [pc EXCEPT ![h] = AfterRewriteMeta(h)]
    /\ UNCHANGED <<limit, pathVars, sampleVars, clientVars, extractVars, canvasVars, domVars, logVars, stopVars, inputVars, id, msg, req, rejected, limiterVars, sessionVars, pageVars,
                   outDirs, done, artifacts>>

\* writeFileAtomic(console.log.json) settled, by returning or by throwing
WriteConsoleLog(h) ==
    /\ pc[h] = "writeConsoleLog"
    /\ \E threw \in BOOLEAN :
          /\ artifacts' = IF threw THEN artifacts
                          ELSE [artifacts EXCEPT ![id[h]] = @ \cup {"console.log.json"}]
          /\ pc' = [pc EXCEPT ![h] = Logs(threw, AfterConsoleLog(h))]
    /\ UNCHANGED <<limit, pathVars, sampleVars, clientVars, extractVars, canvasVars, domVars, logVars, stopVars, inputVars, id, msg, req, rejected, limiterVars,
                   sessionVars, pageVars, outDirs, meta, done>>

\* writeFileAtomic(network.log.json) settled, by returning or by throwing
WriteNetworkLog(h) ==
    /\ pc[h] = "writeNetworkLog"
    /\ \E threw \in BOOLEAN :
          /\ artifacts' = IF threw THEN artifacts
                          ELSE [artifacts EXCEPT ![id[h]] = @ \cup {"network.log.json"}]
          /\ pc' = [pc EXCEPT ![h] = Logs(threw, "writeDone")]
    /\ UNCHANGED <<limit, pathVars, sampleVars, clientVars, extractVars, canvasVars, domVars, logVars, stopVars, inputVars, id, msg, req, rejected, limiterVars,
                   sessionVars, pageVars, outDirs, meta, done>>

\* done.json renamed into place; on error processRequest throws and the task's
\* catch logs; the task's finally awaits fs.unlink(claimedPath)
WriteDone(h) ==
    /\ pc[h] = "writeDone"
    /\ done' = [done EXCEPT ![id[h]] =
                  IF HasError(errorMessage[h])
                  THEN [exists |-> TRUE, status |-> "error",
                        error |-> errorMessage[h]]
                  ELSE [exists |-> TRUE, status |-> "ok", error |-> NoError]]
    /\ rejected' = [rejected EXCEPT ![h] = TaskCatch(HasError(errorMessage[h]))]
    /\ pc' = [pc EXCEPT ![h] = "unlinkClaimed"]
    /\ UNCHANGED <<limit, pathVars, sampleVars, clientVars, extractVars, canvasVars, domVars, logVars, stopVars, inputVars, id, msg, req, limiterVars, sessionVars,
                   pageVars, outDirs, meta, artifacts>>

\* fs.unlink(claimedPath) settled (ENOENT swallowed): the task's promise resolves
UnlinkClaimed(h) ==
    /\ pc[h] = "unlinkClaimed"
    /\ processing' = [processing EXCEPT ![id[h]] = 0]
    /\ pc' = [pc EXCEPT ![h] = "settle"]
    /\ UNCHANGED <<limit, pathVars, sampleVars, clientVars, extractVars, canvasVars, domVars, logVars, stopVars, raw, inbox, id, msg, req, rejected, limiterVars, sessionVars,
                   pageVars, outputVars>>

\* a chain whose finally callback is skipped when the task rejected
SettleKeepsSlotOnReject(h) ==
    /\ pc[h] = "settle"
    /\ active' = IF rejected[h] THEN active ELSE active - 1
    /\ pendingRunNext' = IF rejected[h] THEN pendingRunNext ELSE pendingRunNext + 1
    /\ IF rejected[h]
       THEN /\ pc' = [pc EXCEPT ![h] = "errReadJSON"]
            /\ msg' = [msg EXCEPT ![h] = errorMessage[h]]
       ELSE /\ pc' = [pc EXCEPT ![h] = "resolved"]
            /\ msg' = msg
    /\ rejected' = [rejected EXCEPT ![h] = FALSE]
    /\ errorMessage' = [errorMessage EXCEPT ![h] = NoError]
    /\ UNCHANGED <<limit, pathVars, sampleVars, clientVars, extractVars, canvasVars, domVars,
                   logVars, stopVars, inputVars, id, req, queue, sessionVars, page, step,
                   outputVars>>

\* .then(() => item.resolve()).catch((e) => item.reject(e))
\* .finally(() => { active--; setImmediate(runNext) }): the handler's
\* `await enqueue(...)` resumes and the handler returns, or it throws into the
\* handler's outer catch, which awaits readJSON(filePath); the locals of the task
\* and of processRequest are gone
Settle(h) ==
    /\ pc[h] = "settle"
    /\ active' = active - 1
    /\ pendingRunNext' = pendingRunNext + 1
    /\ IF rejected[h]
       THEN /\ pc' = [pc EXCEPT ![h] = "errReadJSON"]
            /\ msg' = [msg EXCEPT ![h] = IF errorMessage[h] # NoError
                                         THEN errorMessage[h] ELSE NavigationTimeout]
       ELSE /\ pc' = [pc EXCEPT ![h] = "resolved"]
            /\ msg' = msg
    /\ rejected' = [rejected EXCEPT ![h] = FALSE]
    /\ context' = [context EXCEPT ![h] = 0]
    /\ page' = [page EXCEPT ![h] = "none"]
    /\ errorMessage' = [errorMessage EXCEPT ![h] = NoError]
    /\ consoleEvents' = [consoleEvents EXCEPT ![h] = FALSE]
    /\ networkEvents' = [networkEvents EXCEPT ![h] = FALSE]
    /\ UNCHANGED <<limit, pathVars, sampleVars, clientVars, extractVars, canvasVars, domVars, stopVars, inputVars, id, req, queue, sessionContexts,
                   browserContexts, step, outputVars>>

(***************************************************************************)
(* The files of responses/<id>/ while a write is awaited.                  *)
(***************************************************************************)
\* the names under which clients read the artifacts of a job
ArtifactNames == {"meta.json", "page.html", "screenshot.png", "done.json"}

\* path.join(dir, `.${base}.tmp-${randomUUID()}`)
TmpName(base) == "." \o base \o ".tmp-<uuid>"

\* writeFileAtomic(filePath, data): the path fs.writeFile fills with the data, which
\* fs.rename then moves to filePath
writeFileAtomic(base) == TmpName(base)

\* page.screenshot({ path }): the browser's image is written to `path` itself
pageScreenshot(base) == base

\* the paths in responses/<id[h]>/ whose content is incomplete at some moment
\* while handler h awaits its current operation
BeingWritten(h) ==
    CASE pc[h] \in {"writeMeta", "rewriteMeta", "errWriteMeta"} -> {writeFileAtomic("meta.json")}
      [] pc[h] \in {"writeDone", "errWriteDone"} -> {writeFileAtomic("done.json")}
      [] pc[h] = "try" /\ Awaited(h).op = "writeHtml" -> {writeFileAtomic("page.html")}
      [] pc[h] = "try" /\ Awaited(h).op = "screenshot" -> {pageScreenshot("screenshot.png")}
      [] OTHER -> {}

(***************************************************************************)
(* clickMuteHeuristic.  A text is the sequence of its characters.          *)
(***************************************************************************)
\* String.prototype.toLowerCase, on the letters the texts below use
Lower(c) ==
    CASE c = "A" -> "a" [] c = "M" -> "m" [] c = "N" -> "n" [] c = "S" -> "s"
      [] OTHER -> c

toLowerCase(t) == [k \in 1..Len(t) |-> Lower(t[k])]

\* /sound|audio|music|zvuk|zvuky|hudba/
SoundTerms ==
    { <<"s","o","u","n","d">>, <<"a","u","d","i","o">>, <<"m","u","s","i","c">>,
      <<"z","v","u","k">>, <<"z","v","u","k","y">>, <<"h","u","d","b","a">> }
\* /no|off|mute|disable|bez|vyp/
MuteTerms ==
    { <<"n","o">>, <<"o","f","f">>, <<"m","u","t","e">>,
      <<"d","i","s","a","b","l","e">>, <<"b","e","z">>, <<"v","y","p">> }
\* /accept|ok|yes|ano/
AcceptTerms ==
    { <<"a","c","c","e","p","t">>, <<"o","k">>, <<"y","e","s">>, <<"a","n","o">> }

\* /a|b|.../.test(t): some term occurs somewhere in t
Test(terms, t) ==
    \E w \in terms : \E k \in 1..(Len(t) - Len(w) + 1) : SubSeq(t, k, k + Len(w) - 1) = w

\* const score = (el) => ...
score(el) ==
    LET t == toLowerCase(el.text)
    IN  (IF Test(SoundTerms, t) THEN 2 ELSE 0)
        + (IF Test(MuteTerms, t) THEN 3 ELSE 0)
        - (IF Test(AcceptTerms, t) THEN 1 ELSE 0)

\* for (const el of candidates) { if (s > bestScore) { bestScore = s; best = el; } }
\* from candidate k on; best is an index into candidates (0: null)
RECURSIVE BestFrom(_, _, _, _)
BestFrom(candidates, k, best, bestScore) ==
    IF k > Len(candidates) THEN [best |-> best, bestScore |-> bestScore]
    ELSE IF score(candidates[k]) > bestScore
         THEN BestFrom(candidates, k + 1, k, score(candidates[k]))
         ELSE BestFrom(candidates, k + 1, best, bestScore)

\* the element the page.evaluate callback marks with data-ww-click="1" (0: it
\* returns null)
Marked(candidates) ==
    LET b == BestFrom(candidates, 1, 0, 0)
    IN  IF b.best # 0 /\ b.bestScore >= 3 THEN b.best ELSE 0

\* document.querySelector('[data-ww-click="1"]'): the first element that carries
\* the attribute (0: none)
QuerySelectorMarked(candidates) ==
    IF \E k \in 1..Len(candidates) : candidates[k].marked
    THEN CHOOSE k \in 1..Len(candidates) :
            candidates[k].marked /\ \A j \in 1..(k - 1) : ~candidates[j].marked
    ELSE 0

\* page.click('[data-ww-click="1"]'): the element hit
PageClick(candidates) == QuerySelectorMarked(candidates)

\* texts of clickable elements
TextSound == <<"S","o","u","n","d">>
TextNoSound == <<"N","o"," ","S","o","u","n","d">>
TextAccept == <<"A","c","c","e","p","t">>
TextMute == <<"M","u","t","e">>
Texts == {TextSound, TextNoSound, TextAccept, TextMute}

\* the page was loaded: its clickable candidates, none of them marked
LoadDocument(texts) ==
    /\ document = << >>
    /\ document' = [k \in 1..Len(texts) |-> [text |-> texts[k], marked |-> FALSE]]
    /\ UNCHANGED <<limit, pathVars, sampleVars, clientVars, extractVars, canvasVars, stopVars, inputVars, pc, id, msg, req, rejected, limiterVars,
                   sessionVars, pageVars, outputVars, logVars, clicked>>

\* a script of the page (or an earlier action) changes the text of candidate k
Relabel(k, t) ==
    /\ k \in 1..Len(document)
    /\ document[k].text # t
    /\ document' = [document EXCEPT ![k].text = t]
    /\ UNCHANGED <<limit, pathVars, sampleVars, clientVars, extractVars, canvasVars, stopVars, inputVars, pc, id, msg, req, rejected, limiterVars,
                   sessionVars, pageVars, outputVars, logVars, clicked>>

\* one muteHeuristic action: clickMuteHeuristic(page)
clickMuteHeuristic ==
    /\ document # << >>
    /\ Len(clicked) < MaxMuteActions
    /\ LET best == Marked(document)
           after == IF best # 0 THEN [document EXCEPT ![best].marked = TRUE] ELSE document
       IN  /\ document' = after
           /\ clicked' = Append(clicked, IF best # 0 THEN PageClick(after) ELSE 0)
    /\ UNCHANGED <<limit, pathVars, sampleVars, clientVars, extractVars, canvasVars, stopVars, inputVars, pc, id, msg, req, rejected, limiterVars,
                   sessionVars, pageVars, outputVars, logVars>>

\* the documents pages are loaded with
Documents == UNION {[1..n -> Texts] : n \in 1..MaxCandidates}

(***************************************************************************)
(* The muteHeuristic actions of one job against one page.                  *)
(***************************************************************************)
MuteNext ==
    \/ document = << >> /\ \E d \in Documents : LoadDocument(d)
    \/ \E k \in 1..MaxCandidates, t \in Texts : Relabel(k, t)
    \/ clickMuteHeuristic

MuteSpec == Init /\ [][MuteNext]_vars

(***************************************************************************)
(* waitForCanvasPaint.  Time is counted in units; page.evaluate takes no   *)
(* time and a timer fires exactly when it is due.                          *)
(***************************************************************************)
\* the time by which every wait has returned or thrown
MaxClock == MaxPaintAt + MaxTimeout + MaxInterval

\* the page.evaluate callback: a canvas with a painted pixel exists
painted == now >= paintAt

\* if (Date.now() - t0 > timeoutMs)
DeadlineExceeded == now - t0 > timeoutMs

\* runActions calls waitForCanvasPaint(page, a.timeoutMs, a.intervalMs) on a page
\* whose canvas paints at time p: const t0 = Date.now(); await page.evaluate(...)
waitForCanvasPaint(vTimeoutMs, vIntervalMs, p) ==
    /\ waitPc = "idle"
    /\ timeoutMs' = vTimeoutMs
    /\ intervalMs' = vIntervalMs
    /\ paintAt' = p
    /\ t0' = now
    /\ waitPc' = "evaluate"
    /\ UNCHANGED <<limit, pathVars, sampleVars, clientVars, extractVars, stopVars, inputVars, pc, id, msg, req, rejected, limiterVars,
                   sessionVars, pageVars, outputVars, logVars, domVars, now, wake>>

\* page.evaluate settled: return, throw, or await the timer
Evaluate ==
    /\ waitPc = "evaluate"
    /\ IF painted
       THEN waitPc' = "returned" /\ wake' = wake
       ELSE IF DeadlineExceeded
            THEN waitPc' = "threw" /\ wake' = wake
            ELSE waitPc' = "sleep" /\ wake' = now + intervalMs
    /\ UNCHANGED <<limit, pathVars, sampleVars, clientVars, extractVars, stopVars, inputVars, pc, id, msg, req, rejected, limiterVars,
                   sessionVars, pageVars, outputVars, logVars, domVars, now, paintAt,
                   timeoutMs, intervalMs, t0>>

\* time passes while the timer is pending
Tick ==
    /\ waitPc = "sleep"
    /\ now < wake
    /\ now < MaxClock
    /\ now' = now + 1
    /\ UNCHANGED <<limit, pathVars, sampleVars, clientVars, extractVars, stopVars, inputVars, pc, id, msg, req, rejected, limiterVars,
                   sessionVars, pageVars, outputVars, logVars, domVars, paintAt, timeoutMs,
                   intervalMs, t0, wake, waitPc>>

\* the timer of setTimeout(r, intervalMs) fires: the loop awaits page.evaluate again
TimerFires ==
    /\ waitPc = "sleep"
    /\ now = wake
    /\ waitPc' = "evaluate"
    /\ UNCHANGED <<limit, pathVars, sampleVars, clientVars, extractVars, stopVars, inputVars, pc, id, msg, req, rejected, limiterVars,
                   sessionVars, pageVars, outputVars, logVars, domVars, now, paintAt,
                   timeoutMs, intervalMs, t0, wake>>

CanvasNext ==
    \/ /\ waitPc = "idle"
       /\ \E vT \in 0..MaxTimeout, vI \in 1..MaxInterval, p \in 0..MaxPaintAt :
             waitForCanvasPaint(vT, vI, p)
    \/ Evaluate
    \/ Tick
    \/ TimerFires

CanvasSpec == Init /\ [][CanvasNext]_vars

(***************************************************************************)
(* One sample of waitForCanvasPaint: the function page.evaluate runs in    *)
(* the page.  A canvas has a size, a context kind ("2d" when               *)
(* getContext('2d') returns a context, "webgl" when it returns null), an   *)
(* origin-clean flag and its pixels: the coloured ones are listed by       *)
(* position <<x, y>>, every other pixel is transparent black.              *)
(***************************************************************************)
\* document.querySelector('canvas') on a page without canvas
NoCanvas == [t |-> "null"]

Canvas(vWidth, vHeight, vContext, vTainted, vPixels) ==
    [t |-> "canvas", width |-> vWidth, height |-> vHeight, context |-> vContext,
     tainted |-> vTainted, pixels |-> vPixels]

Rgba(vR, vG, vB, vA) == [r |-> vR, g |-> vG, b |-> vB, a |-> vA]

\* Math.min(64, n)
RegionSide == 64
MinRegion(n) == IF n < RegionSide THEN n ELSE RegionSide

\* the four bytes of the pixel at <<x, y>> in ctx.getImageData(0, 0, w, h).data
PixelAt(c, x, y) ==
    IF <<x, y>> \in DOMAIN c.pixels THEN c.pixels[<<x, y>>] ELSE Rgba(0, 0, 0, 0)

\* a test that takes every pixel that is not transparent
PixelPaintsAnyColour(px) == px.a # 0

\* if (a !== 0 && !(r === 255 && g === 255 && b === 255)) return true
PixelPaints(px) == px.a # 0 /\ ~(px.r = 255 /\ px.g = 255 /\ px.b = 255)

\* ctx.getImageData(0, 0, w, h) throws: SecurityError on a canvas that is not
\* origin-clean, IndexSizeError when w or h is 0
GetImageDataThrows(c, w, h) == c.tainted \/ w = 0 \/ h = 0

\* the function evaluated in the page, on the first canvas c of the document
SamplePainted(c) ==
    IF c = NoCanvas THEN FALSE
    ELSE IF c.context # "2d" THEN TRUE
    ELSE LET w == MinRegion(c.width)
             h == MinRegion(c.height)
         IN  IF GetImageDataThrows(c, w, h) THEN TRUE
             ELSE \E y \in 0..(h - 1), x \in 0..(w - 1) : PixelPaints(PixelAt(c, x, y))

\* canvases: sizes around the region side, positions at the corners of the
\* region and just outside it, colours around the two tests
CanvasSizes == {<<0, 65>>, <<1, 1>>, <<64, 64>>, <<65, 65>>, <<65, 1>>}
PixelPositions == {<<0, 0>>, <<63, 63>>, <<64, 0>>, <<0, 64>>}
PixelColours == {Rgba(255, 255, 255, 255), Rgba(255, 255, 255, 128), Rgba(255, 0, 0, 0),
                 Rgba(255, 255, 254, 255)}

Images(size) ==
    UNION { [P -> PixelColours] :
              P \in { Q \in SUBSET { q \in PixelPositions : q[1] < size[1] /\ q[2] < size[2] } :
                          Cardinality(Q) <= MaxPixels } }

Canvases ==
    UNION { { Canvas(size[1], size[2], "2d", FALSE, img) : img \in Images(size) } :
              size \in CanvasSizes }
    \cup { Canvas(65, 65, "webgl", FALSE, << >>),
           Canvas(65, 65, "2d", TRUE, (<<0, 0>> :> Rgba(255, 255, 255, 255))) }

\* the page gets its canvas
LoadCanvas(c) ==
    /\ canvas = NoCanvas
    /\ sample = NotRun
    /\ canvas' = c
    /\ UNCHANGED <<limit, pathVars, clientVars, extractVars, canvasVars, domVars, logVars, stopVars,
                   inputVars, pc, id, msg, req, rejected, limiterVars, sessionVars, pageVars,
                   outputVars, sample>>

\* const painted = await page.evaluate(...)
Sample ==
    /\ sample = NotRun
    /\ sample' = JBool(SamplePainted(canvas))
    /\ UNCHANGED <<limit, pathVars, clientVars, extractVars, canvasVars, domVars, logVars, stopVars,
                   inputVars, pc, id, msg, req, rejected, limiterVars, sessionVars, pageVars,
                   outputVars, canvas>>

SampleNext ==
    \/ canvas = NoCanvas /\ sample = NotRun /\ \E c \in Canvases : LoadCanvas(c)
    \/ Sample

SampleSpec == Init /\ [][SampleNext]_vars

(***************************************************************************)
(* The paths a job writes to.  A string that is used as a path is a        *)
(* sequence of characters; a path is the sequence of its segments from the *)
(* root.                                                                   *)
(***************************************************************************)
\* the segments of a string between its '/' separators, from character k on,
\* cur being the segment read so far
RECURSIVE SplitFrom(_, _, _)
SplitFrom(s, k, cur) ==
    IF k > Len(s) THEN <<cur>>
    ELSE IF s[k] = "/" THEN <<cur>> \o SplitFrom(s, k + 1, "")
    ELSE SplitFrom(s, k + 1, cur \o s[k])

\* path.normalize on segments: '' and '.' are dropped, '..' removes the segment
\* before it (nothing at the root); out is the path built so far
RECURSIVE NormalizeFrom(_, _, _)
NormalizeFrom(segs, k, out) ==
    IF k > Len(segs) THEN out
    ELSE IF segs[k] \in {"", "."} THEN NormalizeFrom(segs, k + 1, out)
    ELSE IF segs[k] = ".."
         THEN NormalizeFrom(segs, k + 1, IF out = << >> THEN out ELSE SubSeq(out, 1, Len(out) - 1))
    ELSE NormalizeFrom(segs, k + 1, Append(out, segs[k]))

\* path.join(dir, name) for an absolute normalized dir
PathJoin(dir, name) == NormalizeFrom(dir \o SplitFrom(name, 1, ""), 1, << >>)

\* path.dirname and path.basename of a normalized path
Dirname(path) == SubSeq(path, 1, Len(path) - 1)
Basename(path) == path[Len(path)]

\* const RESPONSES_DIR = path.resolve(process.cwd(), 'responses')
RESPONSES_DIR == <<"cwd", "responses">>

\* the characters of a file name of the service
Chars(name) ==
    CASE name = "meta.json" ->
             <<"m", "e", "t", "a", ".", "j", "s", "o", "n">>
      [] name = "done.json" ->
             <<"d", "o", "n", "e", ".", "j", "s", "o", "n">>
      [] name = "page.html" ->
             <<"p", "a", "g", "e", ".", "h", "t", "m", "l">>
      [] name = "screenshot.png" ->
             <<"s", "c", "r", "e", "e", "n", "s", "h", "o", "t", ".", "p", "n", "g">>
      [] name = "step-01-element.png" ->
             <<"s", "t", "e", "p", "-", "0", "1", "-", "e", "l", "e", "m", "e", "n", "t", ".", "p", "n", "g">>

\* const outDir = path.join(responsesDir, id)
OutDir(vId) == PathJoin(RESPONSES_DIR, vId)

\* the paths writeFileAtomic(filePath) writes to: the temporary file beside
\* filePath, and filePath
AtomicPaths(filePath) ==
    {Append(Dirname(filePath), TmpName(Basename(filePath))), filePath}

\* ids and element-snapshot file names found in request files
PathIds ==
    { <<"a">>, <<".", ".", "/", "x">>, <<"a", "/", "b">>, <<".">>, <<"/", "e", "t", "c">>,
      <<"a", "/", ".", ".", "/", ".", ".", "/", "x">> }
PathFiles ==
    { << >>, <<"e", ".", "p", "n", "g">>, <<".", ".", "/", "e">>,
      <<"s", "/", "e">>, <<".", ".", "/", ".", ".", "/", ".", ".", "/", "e">> }

\* a request with id vId, whose element snapshot names the file vFile (<< >>:
\* none), is taken up
TakeJob(vId, vFile) ==
    /\ pathJob = NotRun
    /\ pathJob' = [id |-> vId, file |-> vFile]
    /\ UNCHANGED <<limit, clientVars, extractVars, canvasVars, domVars, logVars, stopVars,
                   inputVars, pc, id, msg, req, rejected, limiterVars, sessionVars, pageVars,
                   outputVars, sampleVars, written>>

\* writeJSONAtomic / writeFileAtomic(path.join(outDir, name), ...) of processRequest
\* and of the add handler's catch
WriteAtomic(name) ==
    /\ pathJob # NotRun
    /\ Cardinality(written) < 2 * MaxWrites
    /\ written' = written \cup AtomicPaths(PathJoin(OutDir(pathJob.id), Chars(name)))
    /\ UNCHANGED <<limit, clientVars, extractVars, canvasVars, domVars, logVars, stopVars,
                   inputVars, pc, id, msg, req, rejected, limiterVars, sessionVars, pageVars,
                   outputVars, sampleVars, pathJob>>

\* page.screenshot({ path: path.join(outDir, 'screenshot.png') })
WriteScreenshot ==
    /\ pathJob # NotRun
    /\ Cardinality(written) < 2 * MaxWrites
    /\ written' = written \cup {PathJoin(OutDir(pathJob.id), Chars("screenshot.png"))}
    /\ UNCHANGED <<limit, clientVars, extractVars, canvasVars, domVars, logVars, stopVars,
                   inputVars, pc, id, msg, req, rejected, limiterVars, sessionVars, pageVars,
                   outputVars, sampleVars, pathJob>>

\* const file = a.file || `step-NN-element.png`;
\* el.screenshot({ path: path.join(outDir, file) })
WriteElementSnapshot ==
    /\ pathJob # NotRun
    /\ Cardinality(written) < 2 * MaxWrites
    /\ written' = written \cup
                     {PathJoin(OutDir(pathJob.id),
                               IF pathJob.file # << >> THEN pathJob.file
                               ELSE Chars("step-01-element.png"))}
    /\ UNCHANGED <<limit, clientVars, extractVars, canvasVars, domVars, logVars, stopVars,
                   inputVars, pc, id, msg, req, rejected, limiterVars, sessionVars, pageVars,
                   outputVars, sampleVars, pathJob>>

PathNext ==
    \/ pathJob = NotRun /\ \E vId \in PathIds, vFile \in PathFiles : TakeJob(vId, vFile)
    \/ \E name \in {"meta.json", "page.html", "done.json"} : WriteAtomic(name)
    \/ WriteScreenshot
    \/ WriteElementSnapshot

PathSpec == Init /\ [][PathNext]_vars

(***************************************************************************)
(* performExtracts.  An element has a tag, a text content, an href         *)
(* attribute (JNull: none) and an outer HTML; strings are sequences of     *)
(* characters; a selector is a tag name.                                   *)
(***************************************************************************)
\* String.prototype.trim
RECURSIVE trim(_)
trim(s) ==
    IF s = << >> THEN s
    ELSE IF Head(s) = " " THEN trim(Tail(s))
         ELSE IF s[Len(s)] = " " THEN trim(SubSeq(s, 1, Len(s) - 1))
              ELSE s

\* Array.from(document.querySelectorAll(selector))
querySelectorAll(els, selector) == SelectSeq(els, LAMBDA e : e.tag = selector)

\* els[els.length - 1] in place of els[0]
LastOf(els) == els[Len(els)]

\* const el = els[0]
FirstOf(els) == els[1]

\* the per-element value of each type: (e.textContent || '').trim(),
\* e.getAttribute(name), e.outerHTML
ElementValue(type, e) ==
    CASE type = "text" -> JString(trim(e.textContent))
      [] type = "attr" -> e.href
      [] type = "html" -> JString(e.outerHTML)

\* the page.evaluate callbacks of the text, attr and html branches
EvaluateValue(type, els, all) ==
    IF all THEN JArray([k \in 1..Len(els) |-> ElementValue(type, els[k])])
    ELSE IF els # << >> THEN ElementValue(type, FirstOf(els)) ELSE JNull

\* the types performExtracts has a branch for
ExtractTypes == {"text", "attr", "html", "exists"}

\* one iteration of for (const s of specs): the entries pushed to results
ExtractOne(els, s) ==
    IF s.type \in {"text", "attr", "html"}
    THEN <<[type |-> s.type, selector |-> s.selector,
            value |-> EvaluateValue(s.type, querySelectorAll(els, s.selector), Truthy(s.all))]>>
    ELSE IF s.type = "exists"
         THEN <<[type |-> s.type, selector |-> s.selector,
                 value |-> JBool(querySelectorAll(els, s.selector) # << >>)]>>
         ELSE << >>

\* performExtracts(page, specs) on a page with the elements els, from spec k on
RECURSIVE ExtractFrom(_, _, _)
ExtractFrom(els, ss, k) ==
    IF k > Len(ss) THEN << >>
    ELSE ExtractOne(els, ss[k]) \o ExtractFrom(els, ss, k + 1)

\* elements of pages: a paragraph, a link with an href, a link without one
ElementP == [tag |-> "p", textContent |-> <<" ", "x", " ">>, href |-> JNull,
             outerHTML |-> <<"<p>">>]
ElementA == [tag |-> "a", textContent |-> <<"y">>, href |-> JString(<<"/", "u">>),
             outerHTML |-> <<"<a>", "y">>]
ElementANoHref == [tag |-> "a", textContent |-> << >>, href |-> JNull,
                   outerHTML |-> <<"<a>">>]
Elements == {ElementP, ElementA, ElementANoHref}

\* the pages performExtracts runs against
Pages == UNION {[1..n -> Elements] : n \in 0..MaxElements}

\* extraction specs of request files: text, attr and html of links with and
\* without the all-flag, existence of links, a spec of an unknown type, and two
\* specs whose selector matches nothing on any page
SpecValues ==
    { [type |-> vType, selector |-> "a", all |-> vAll] :
        vType \in {"text", "attr", "html"}, vAll \in {Undefined, JBool(TRUE)} }
    \cup { [type |-> vType, selector |-> "a", all |-> Undefined] : vType \in {"exists", "count"} }
    \cup { [type |-> vType, selector |-> "h1", all |-> Undefined] : vType \in {"text", "exists"} }

SpecLists == UNION {[1..n -> SpecValues] : n \in 1..MaxSpecs}

\* processRequest: const extracted = await performExtracts(page, req.extract),
\* for a request with the extraction specs ss on a page with the elements els
performExtracts(els, ss) ==
    /\ extracted = NotRun
    /\ elements' = els
    /\ specs' = ss
    /\ extracted' = JArray(ExtractFrom(els, ss, 1))
    /\ UNCHANGED <<limit, pathVars, sampleVars, clientVars, stopVars, inputVars, pc, id, msg, req, rejected, limiterVars,
                   sessionVars, pageVars, outputVars, logVars, domVars, canvasVars>>

\* processRequest returned: its locals are gone
ExtractReturn ==
    /\ extracted # NotRun
    /\ elements' = << >>
    /\ specs' = << >>
    /\ extracted' = NotRun
    /\ UNCHANGED <<limit, pathVars, sampleVars, clientVars, stopVars, inputVars, pc, id, msg, req, rejected, limiterVars,
                   sessionVars, pageVars, outputVars, logVars, domVars, canvasVars>>

ExtractNext ==
    \/ extracted = NotRun /\ \E els \in Pages, ss \in SpecLists : performExtracts(els, ss)
    \/ ExtractReturn

ExtractionSpec == Init /\ [][ExtractNext]_vars

(***************************************************************************)
(* The client helper: renderURL, renderHTML and waitForDone.               *)
(***************************************************************************)
\* const req = { id, op, url | html, viewport: opts.viewport, ... } as written
\* by JSON.stringify: the content of the request file of the call that writes
\* file h
ClientRequest(vOp, vUrl, vHtml, o, h) ==
    WithJobOpts(
        WithOpts(RawObject(OrElse(o.id, JString(clientUuid(h))), JString(vOp), vUrl, vHtml,
                           Undefined),
                 Opts(o.viewport, o.fullPage, o.waitUntil, o.timeoutMs,
                      Coalesce(o.screenshot, JBool(TRUE)),
                      Coalesce(o.htmlOutput, JBool(TRUE)))),
        JobOpts(o.userAgent, o.extraHeaders, o.postWaitMs, o.actions, Undefined, Undefined,
                Undefined, Undefined))

\* the opts client code passes: an id; and no id but a viewport, a timeout, no
\* screenshot, a session, an extraction and the diagnostics
ClientOptsValues ==
    { [NoClientOpts EXCEPT !.id = JString("a")],
      [NoClientOpts EXCEPT
          !.viewport = JObject([width |-> 800, height |-> 600, deviceScaleFactor |-> 2]),
          !.timeoutMs = JNumber(5000),
          !.screenshot = JBool(FALSE),
          !.sessionId = JString("s"),
          !.extract = JArray(<<ExtractSpec("text", FALSE)>>),
          !.captureConsole = JBool(TRUE),
          !.captureNetwork = JBool(TRUE),
          !.screenshotOnEachAction = JBool(TRUE)] }

\* the id of the call that wrote file h
ClientId(h) == raw[h].id.s

\* `const done = await waitForDone(id, clientTimeoutMs, pollIntervalMs)`: the
\* call of file h, made with opts o, awaits the first fs.readFile(donePath)
AwaitDone(h, o) ==
    /\ clientOpts' = [clientOpts EXCEPT ![h] = o]
    /\ clientPc' = [clientPc EXCEPT ![h] = "waitForDone"]
    /\ UNCHANGED <<clientDone, clientError>>

\* renderURL(url, opts) up to its await of waitForDone
renderURL(h, o) ==
    /\ WriteRequest(h, ClientRequest("render_url", JString("http://x"), Undefined, o, h))
    /\ AwaitDone(h, o)

\* renderHTML(html, opts) up to its await of waitForDone
renderHTML(h, o) ==
    /\ WriteRequest(h, ClientRequest("render_html", Undefined, JString("<h1>"), o, h))
    /\ AwaitDone(h, o)

\* waitForDone: fs.readFile(donePath) returned and JSON.parse(data) is returned;
\* if (done?.status === 'error') await fs.readFile(metaPath), else return
WaitForDoneReturn(h) ==
    /\ clientPc[h] = "waitForDone"
    /\ done[ClientId(h)].exists
    /\ clientDone' = [clientDone EXCEPT ![h] = done[ClientId(h)]]
    /\ clientPc' = [clientPc EXCEPT ![h] =
                       IF done[ClientId(h)].status = "error" THEN "readMeta" ELSE "resolved"]
    /\ UNCHANGED <<limit, pathVars, sampleVars, extractVars, canvasVars, domVars, logVars, stopVars, inputVars, pc,
                   id, msg, req, rejected, limiterVars, sessionVars, pageVars, outputVars,
                   clientOpts, clientError>>

\* waitForDone: fs.readFile(donePath) threw and Date.now() - t0 > timeoutMs
WaitForDoneTimeout(h) ==
    /\ clientPc[h] = "waitForDone"
    /\ ~done[ClientId(h)].exists
    /\ clientError' = [clientError EXCEPT ![h] = "Timeout waiting for done.json"]
    /\ clientPc' = [clientPc EXCEPT ![h] = "rejected"]
    /\ UNCHANGED <<limit, pathVars, sampleVars, extractVars, canvasVars, domVars, logVars, stopVars, inputVars, pc,
                   id, msg, req, rejected, limiterVars, sessionVars, pageVars, outputVars,
                   clientOpts, clientDone>>

\* a || b on messages (undefined and '' are falsy)
OrMessage(a, b) == IF a # NoError /\ a # "" THEN a ELSE b

\* try { const meta = ...; throw new Error(meta?.errorMessage || done.error || 'Unknown error') }
\* the message thrown inside the try block when meta.json was read
ThrownInTry(m, d) == OrMessage(m.errorMessage, OrMessage(d.error, "Unknown error"))

\* catch { throw new Error(done.error || 'Unknown error') }: the message the call
\* rejects with, `thrown` being what the try block threw
RenderCatch(thrown, d) == OrMessage(d.error, "Unknown error")

\* fs.readFile(metaPath) settled: the call rejects
ReadMeta(h) ==
    /\ clientPc[h] = "readMeta"
    /\ clientError' = [clientError EXCEPT ![h] =
                          RenderCatch(IF meta[ClientId(h)].exists
                                      THEN ThrownInTry(meta[ClientId(h)], clientDone[h])
                                      ELSE "ENOENT: no such file or directory",
                                      clientDone[h])]
    /\ clientPc' = [clientPc EXCEPT ![h] = "rejected"]
    /\ UNCHANGED <<limit, pathVars, sampleVars, extractVars, canvasVars, domVars, logVars, stopVars, inputVars, pc,
                   id, msg, req, rejected, limiterVars, sessionVars, pageVars, outputVars,
                   clientOpts, clientDone>>

(***************************************************************************)
(* Clients that use the helper, and the watcher serving them.              *)
(***************************************************************************)
ClientNext ==
    \/ \E h \in Handlers, o \in ClientOptsValues : renderURL(h, o)
    \/ \E h \in Handlers, o \in ClientOptsValues : renderHTML(h, o)
    \/ \E h \in Handlers : WaitForDoneReturn(h)
    \/ \E h \in Handlers : WaitForDoneTimeout(h)
    \/ \E h \in Handlers : ReadMeta(h)
    \/ \E h \in Handlers : Add(h)
    \/ \E h \in Handlers : ReadDone(h)
    \/ \E h \in Handlers : RenameDone(h)
    \/ RunNext
    \/ \E h \in Handlers : EnsureDir(h)
    \/ \E h \in Handlers : WriteMeta(h)
    \/ \E h \in Handlers : StepReturn(h)
    \/ \E h \in Handlers, m \in Messages : StepThrow(h, m)
    \/ \E h \in Handlers : ClosePage(h)
    \/ \E h \in Handlers : RewriteMeta(h)
    \/ \E h \in Handlers : WriteDone(h)
    \/ \E h \in Handlers : UnlinkClaimed(h)
    \/ \E h \in Handlers : Settle(h)

ClientSpec == Init /\ [][ClientNext]_vars

(***************************************************************************)
(* The specification.                                                      *)
(***************************************************************************)
Next ==
    \/ \E h \in Handlers, r \in Raws : Deliver(h, r)
    \/ \E h \in Handlers : Vanish(h)
    \/ Stop
    \/ StopWatcherClosed
    \/ StopBrowserClosed
    \/ \E h \in Handlers : Add(h)
    \/ \E h \in Handlers : ReadDone(h)
    \/ \E h \in Handlers : RenameDone(h)
    \/ \E h \in Handlers : ErrReadDone(h)
    \/ \E h \in Handlers : ErrEnsureDir(h)
    \/ \E h \in Handlers : ErrWriteMeta(h)
    \/ \E h \in Handlers : ErrWriteDone(h)
    \/ \E h \in Handlers : ErrUnlink(h)
    \/ RunNext
    \/ \E h \in Handlers : CreateContextReturn(h)
    \/ \E h \in Handlers : CreateContextThrow(h)
    \/ \E h \in Handlers : EnsureDir(h)
    \/ \E h \in Handlers : WriteMeta(h)
    \/ \E h \in Handlers : StepReturn(h)
    \/ \E h \in Handlers, m \in Messages : StepThrow(h, m)
    \/ \E h \in Handlers : ClosePage(h)
    \/ \E h \in Handlers : RewriteMeta(h)
    \/ \E h \in Handlers : WriteDone(h)
    \/ \E h \in Handlers : UnlinkClaimed(h)
    \/ \E h \in Handlers : Settle(h)

Spec == Init /\ [][Next]_vars

(***************************************************************************)
(* The watcher, the limiter, the jobs and the shutdown on request files    *)
(* that name no session: every handler and every step of Next but the      *)
(* creation of a session's browser context.                                *)
(***************************************************************************)
WatcherNext ==
    \/ \E h \in Handlers, r \in WatcherRaws : Deliver(h, r)
    \/ \E h \in Handlers : Vanish(h)
    \/ Stop
    \/ StopWatcherClosed
    \/ StopBrowserClosed
    \/ \E h \in Handlers : Add(h)
    \/ \E h \in Handlers : ReadDone(h)
    \/ \E h \in Handlers : RenameDone(h)
    \/ \E h \in Handlers : ErrReadDone(h)
    \/ \E h \in Handlers : ErrEnsureDir(h)
    \/ \E h \in Handlers : ErrWriteMeta(h)
    \/ \E h \in Handlers : ErrWriteDone(h)
    \/ \E h \in Handlers : ErrUnlink(h)
    \/ RunNext
    \/ \E h \in Handlers : EnsureDir(h)
    \/ \E h \in Handlers : WriteMeta(h)
    \/ \E h \in Handlers : StepReturn(h)
    \/ \E h \in Handlers, m \in Messages : StepThrow(h, m)
    \/ \E h \in Handlers : ClosePage(h)
    \/ \E h \in Handlers : RewriteMeta(h)
    \/ \E h \in Handlers : WriteDone(h)
    \/ \E h \in Handlers : UnlinkClaimed(h)
    \/ \E h \in Handlers : Settle(h)

WatcherSpec == Init /\ [][WatcherNext]_vars

(***************************************************************************)
(* A burst of well-formed requests, no shutdown: the limiter and the tasks.*)
(***************************************************************************)
BurstNext ==
    \/ \E h \in Handlers, r \in BurstRaws : Deliver(h, r)
    \/ \E h \in Handlers : Add(h)
    \/ \E h \in Handlers : ReadDone(h)
    \/ \E h \in Handlers : RenameDone(h)
    \/ RunNext
    \/ \E h \in Handlers : EnsureDir(h)
    \/ \E h \in Handlers : WriteMeta(h)
    \/ \E h \in Handlers : StepReturn(h)
    \/ \E h \in Handlers, m \in Messages : StepThrow(h, m)
    \/ \E h \in Handlers : ClosePage(h)
    \/ \E h \in Handlers : RewriteMeta(h)
    \/ \E h \in Handlers : WriteDone(h)
    \/ \E h \in Handlers : UnlinkClaimed(h)
    \/ \E h \in Handlers : Settle(h)

BurstSpec == Init /\ [][BurstNext]_vars

(***************************************************************************)
(* createLimiter on its own: callers enqueue tasks that resolve or reject. *)
(***************************************************************************)
\* enqueue(fn) is called for task h: new Promise((resolve, reject) => { ... })
Call(h) ==
    /\ pc[h] = "none"
    /\ raw[h] = NoRaw
    /\ enqueue(h)
    /\ pc' = [pc EXCEPT ![h] = "queued"]
    /\ UNCHANGED <<limit, pathVars, sampleVars, clientVars, extractVars, canvasVars, domVars,
                   logVars, stopVars, inputVars, id, msg, req, rejected, sessionVars, pageVars,
                   outputVars>>

\* the promise item.fn() returned is fulfilled
TaskResolves(h) ==
    /\ pc[h] = "running"
    /\ pc' = [pc EXCEPT ![h] = "settle"]
    /\ UNCHANGED <<limit, pathVars, sampleVars, clientVars, extractVars, canvasVars, domVars,
                   logVars, stopVars, inputVars, id, msg, req, rejected, limiterVars,
                   sessionVars, pageVars, outputVars>>

\* the promise item.fn() returned is rejected with an error of message m
TaskRejects(h, m) ==
    /\ pc[h] = "running"
    /\ rejected' = [rejected EXCEPT ![h] = TRUE]
    /\ errorMessage' = [errorMessage EXCEPT ![h] = m]
    /\ pc' = [pc EXCEPT ![h] = "settle"]
    /\ UNCHANGED <<limit, pathVars, sampleVars, clientVars, extractVars, canvasVars, domVars,
                   logVars, stopVars, inputVars, id, msg, req, limiterVars, sessionVars,
                   page, step, outputVars>>

\* a running task's promise eventually settles
TaskSettles(h) == TaskResolves(h) \/ \E m \in Messages : TaskRejects(h, m)

CreateLimiterNext ==
    \/ \E h \in Handlers : Call(h)
    \/ RunNext
    \/ \E h \in Handlers : TaskResolves(h)
    \/ \E h \in Handlers, m \in Messages : TaskRejects(h, m)
    \/ \E h \in Handlers : Settle(h)

\* setImmediate callbacks run, promise reactions run, tasks settle
CreateLimiterFairness ==
    /\ WF_vars(RunNext)
    /\ \A h \in Handlers : WF_vars(TaskSettles(h)) /\ WF_vars(Settle(h))

CreateLimiterSpec == Init /\ [][CreateLimiterNext]_vars /\ CreateLimiterFairness

(***************************************************************************)
(* The limiter under the scheduling of the event loop: a burst of          *)
(* well-formed requests whose tasks fail at their first call into the      *)
(* browser; a setImmediate callback that is pending is run, and the        *)
(* operation a dispatched task awaits settles (every dispatched task       *)
(* eventually settles).                                                    *)
(***************************************************************************)
\* the resumption of the task of handler h after the operation it awaits
TaskStep(h) ==
    \/ EnsureDir(h)
    \/ WriteMeta(h)
    \/ StepReturn(h)
    \/ \E m \in Messages : StepThrow(h, m)
    \/ ClosePage(h)
    \/ RewriteMeta(h)
    \/ WriteDone(h)
    \/ UnlinkClaimed(h)
    \/ Settle(h)

EventLoopFairness ==
    /\ WF_vars(RunNext)
    /\ \A h \in Handlers : WF_vars(TaskStep(h))

LimiterNext ==
    \/ \E h \in Handlers, r \in BurstRaws : Deliver(h, r)
    \/ \E h \in Handlers : Add(h)
    \/ \E h \in Handlers : ReadDone(h)
    \/ \E h \in Handlers : RenameDone(h)
    \/ RunNext
    \/ \E h \in Handlers : EnsureDir(h)
    \/ \E h \in Handlers : WriteMeta(h)
    \/ \E h \in Handlers, m \in Messages : StepThrow(h, m)
    \/ \E h \in Handlers : RewriteMeta(h)
    \/ \E h \in Handlers : WriteDone(h)
    \/ \E h \in Handlers : UnlinkClaimed(h)
    \/ \E h \in Handlers : Settle(h)

LimiterSpec == Init /\ [][LimiterNext]_vars /\ EventLoopFairness

(***************************************************************************)
(* A burst of well-formed requests of one session against a browser that   *)
(* fails: the creation of the session context returns or throws, and the   *)
(* first call into the browser inside processRequest throws.               *)
(***************************************************************************)
FaultNext ==
    \/ \E h \in Handlers, r \in SessionRaws : Deliver(h, r)
    \/ \E h \in Handlers : Add(h)
    \/ \E h \in Handlers : ReadDone(h)
    \/ \E h \in Handlers : RenameDone(h)
    \/ RunNext
    \/ \E h \in Handlers : CreateContextReturn(h)
    \/ \E h \in Handlers : CreateContextThrow(h)
    \/ \E h \in Handlers : EnsureDir(h)
    \/ \E h \in Handlers : WriteMeta(h)
    \/ \E h \in Handlers, m \in Messages : StepThrow(h, m)
    \/ \E h \in Handlers : RewriteMeta(h)
    \/ \E h \in Handlers : WriteDone(h)
    \/ \E h \in Handlers : UnlinkClaimed(h)
    \/ \E h \in Handlers : Settle(h)

FaultSpec == Init /\ [][FaultNext]_vars

(***************************************************************************)
(* One job from its request file to its completion marker: requests that   *)
(* use the job options, every operation of processRequest returning or     *)
(* throwing, the page emitting console and network events.                 *)
(***************************************************************************)
JobNext ==
    \/ pc[1] = "none" /\ \E r \in JobRaws : Deliver(1, r)
    \/ \E h \in Handlers : Add(h)
    \/ \E h \in Handlers : ReadDone(h)
    \/ \E h \in Handlers : RenameDone(h)
    \/ RunNext
    \/ \E h \in Handlers : EnsureDir(h)
    \/ \E h \in Handlers : WriteMeta(h)
    \/ \E h \in Handlers : StepReturn(h)
    \/ \E h \in Handlers, m \in Messages : StepThrow(h, m)
    \/ \E h \in Handlers : ConsoleEvent(h)
    \/ \E h \in Handlers : NetworkEvent(h)
    \/ \E h \in Handlers : ClosePage(h)
    \/ \E h \in Handlers : RewriteMeta(h)
    \/ \E h \in Handlers : WriteConsoleLog(h)
    \/ \E h \in Handlers : WriteNetworkLog(h)
    \/ \E h \in Handlers : WriteDone(h)
    \/ \E h \in Handlers : UnlinkClaimed(h)
    \/ \E h \in Handlers : Settle(h)

JobSpec == Init /\ [][JobNext]_vars

(***************************************************************************)
(* One job at a time whose request carries a list of actions, well formed  *)
(* or not.                                                                 *)
(***************************************************************************)
ActionNext ==
    \/ pc[1] = "none" /\ \E r \in ActionRaws : Deliver(1, r)
    \/ \E h \in Handlers : Add(h)
    \/ \E h \in Handlers : ReadDone(h)
    \/ \E h \in Handlers : RenameDone(h)
    \/ RunNext
    \/ \E h \in Handlers : EnsureDir(h)
    \/ \E h \in Handlers : WriteMeta(h)
    \/ \E h \in Handlers : StepReturn(h)
    \/ \E h \in Handlers, m \in Messages : StepThrow(h, m)
    \/ \E h \in Handlers : ClosePage(h)
    \/ \E h \in Handlers : RewriteMeta(h)
    \/ \E h \in Handlers : WriteDone(h)
    \/ \E h \in Handlers : UnlinkClaimed(h)
    \/ \E h \in Handlers : Settle(h)

ActionSpec == Init /\ [][ActionNext]_vars

(***************************************************************************)
(* normalizeRequest alone: the handler of the first file reads it and      *)
(* normalizes it.                                                          *)
(***************************************************************************)
NormalizeNext ==
    \/ pc[1] = "none" /\ \E r \in NormalizeRaws : Deliver(1, r)
    \/ Add(1)
    \/ ReadDone(1)

NormalizeSpec == Init /\ [][NormalizeNext]_vars

(***************************************************************************)
(* The claim manager alone: every kind of file, tasks stay in the queue.   *)
(***************************************************************************)
InboxNext ==
    \/ \E h \in Handlers, r \in InboxRaws : Deliver(h, r)
    \/ \E h \in Handlers : Vanish(h)
    \/ \E h \in Handlers : Add(h)
    \/ \E h \in Handlers : ReadDone(h)
    \/ \E h \in Handlers : RenameDone(h)
    \/ \E h \in Handlers : ErrReadDone(h)
    \/ \E h \in Handlers : ErrEnsureDir(h)
    \/ \E h \in Handlers : ErrWriteMeta(h)
    \/ \E h \in Handlers : ErrWriteDone(h)
    \/ \E h \in Handlers : ErrUnlink(h)

InboxSpec == Init /\ [][InboxNext]_vars

(***************************************************************************)
(* Vocabulary of the properties.                                           *)
(***************************************************************************)
\* enqueue() was called for the handler's job
Enqueued(h) == pc[h] = "queued" \/ pc[h] \in TaskPcs \/ pc[h] = "resolved"

OpenPages == {h \in Handlers : page[h] = "open"}

\* position of handler h in sequence q (0: not in q)
Pos(q, h) == IF \E i \in 1..Len(q) : q[i] = h
             THEN CHOOSE i \in 1..Len(q) : q[i] = h
             ELSE 0

(***************************************************************************)
(* C1: in every reachable state, for every limit N >= 1 and any burst of   *)
(* enqueued jobs, at most N jobs are dispatched and not yet finished, and  *)
(* so at most N jobs hold an open page.                                    *)
(***************************************************************************)
C1_AtMostLimitInFlight ==
    /\ Cardinality({h \in Handlers : Dispatched(h)}) <= limit
    /\ Cardinality(OpenPages) <= limit
    /\ active <= limit

\* the limiter is full, a page is open, and another job waits in the queue
C1_Witness ==
    /\ Cardinality({h \in Handlers : Dispatched(h)}) = limit
    /\ OpenPages # {}
    /\ queue # << >>

(***************************************************************************)
(* C6: tasks are dispatched strictly in submission order.  enqueue puts a  *)
(* task behind every waiting task, no step reorders the waiting tasks, and *)
(* the task that is started is the one ahead of every other waiting task:  *)
(* so a task enqueued before another one is started before it.             *)
(***************************************************************************)
C6_FifoDispatch ==
    [][ /\ \A h \in Handlers :
             (pc[h] = "rename" /\ pc'[h] = "queued") =>
                 /\ Pos(queue', h) > 0
                 /\ \A g \in Handlers \ {h} :
                        pc[g] = "queued" => 0 < Pos(queue', g) /\ Pos(queue', g) < Pos(queue', h)
        /\ \A g1, g2 \in Handlers :
             (pc[g1] = "queued" /\ pc'[g1] = "queued" /\ pc[g2] = "queued" /\ pc'[g2] = "queued"
                /\ Pos(queue, g1) < Pos(queue, g2)) => Pos(queue', g1) < Pos(queue', g2)
        /\ \A h \in Handlers :
             (pc[h] = "queued" /\ pc'[h] # "queued") =>
                 \A g \in Handlers \ {h} : pc[g] = "queued" => Pos(queue, h) < Pos(queue, g)
      ]_vars

\* one task has been started while a task submitted after it still waits
C6_Witness ==
    \E h, g \in Handlers :
        /\ h < g
        /\ Dispatched(h)
        /\ pc[g] = "queued"
        /\ Pos(queue, g) > 0

(***************************************************************************)
(* C8: a request file that fails JSON parsing or fails normalizeRequest is *)
(* never moved into requests/processing/, is never handed to the limiter,  *)
(* and is gone from requests/ when its handler returns.                    *)
(***************************************************************************)
\* the file content is rejected: not JSON, null, or op / url / html as required
C8_Malformed(r) ==
    \/ r.json \in {"unparsable", "null"}
    \/ /\ r.json = "object"
       /\ \/ r.op \notin {JString("render_url"), JString("render_html")}
          \/ r.op = JString("render_url") /\ r.url \in {Undefined, JString("")}
          \/ r.op = JString("render_html") /\ r.html \in {Undefined, JString("")}

C8_MalformedNeverClaimed ==
    \A h \in Handlers :
        C8_Malformed(raw[h]) =>
            /\ pc[h] # "rename"
            /\ ~Enqueued(h)
            /\ Pos(queue, h) = 0
            /\ \A i \in Ids : processing[i] # h
            /\ pc[h] = "handled" => h \notin inbox

\* a malformed file has been handled while a well-formed one was claimed
C8_Witness ==
    \E h, g \in Handlers :
        /\ C8_Malformed(raw[h])
        /\ pc[h] = "handled"
        /\ h \notin inbox
        /\ pc[g] = "queued"
        /\ processing[id[g]] = g

(***************************************************************************)
(* C2: once done.json exists in responses/<id>/, no other artifact of that *)
(* directory is created or rewritten, over any sequence of deliveries      *)
(* (several files with the same id, malformed files with that id).         *)
(***************************************************************************)
C2_MarkerIsLastWrite ==
    [][ \A i \in Ids :
            done[i].exists => (meta'[i] = meta[i] /\ artifacts'[i] = artifacts[i])
      ]_vars

(***************************************************************************)
(* C3: every well-formed job gets its output directory and, once its       *)
(* execution has ended, a completion marker in it: when the task of a job  *)
(* has settled, responses/<id>/done.json exists (nothing writes it later). *)
(***************************************************************************)
C3_SettledJobHasMarker ==
    \A h \in Handlers :
        pc[h] = "resolved" => (id[h] \in outDirs /\ done[id[h]].exists)

(***************************************************************************)
(* C4: a job record delivered twice (two files with identical content) is  *)
(* claimed, enqueued and executed once: never are two handlers of the same *)
(* record with the same id both handed to the limiter.                     *)
(***************************************************************************)
C4_NoDoubleProcessing ==
    \A h, g \in Handlers :
        (h # g /\ raw[h] = raw[g] /\ Enqueued(h) /\ Enqueued(g)) => id[h] # id[g]

(***************************************************************************)
(* C5: at most one browser context is ever created for a session id, and  *)
(* every job of that session opens its page in that context.               *)
(***************************************************************************)
C5_OneContextPerSession ==
    /\ \A s \in SessionIds : Cardinality({c \in browserContexts : c[1] = s}) <= 1
    /\ \A h, g \in Handlers :
          (page[h] = "open" /\ page[g] = "open"
             /\ Req(raw[h], h).sessionId # ""
             /\ Req(raw[h], h).sessionId = Req(raw[g], g).sessionId)
          => context[h] = context[g]

(***************************************************************************)
(* C7: when fs.rename fails because the request file no longer exists, the *)
(* handler skips the file: it does not enqueue the job.                    *)
(***************************************************************************)
C7_LostRaceIsSkipped ==
    [][ \A h \in Handlers :
            (pc[h] = "rename" /\ h \notin inbox /\ pc'[h] # "rename")
            => (pc'[h] # "queued" /\ Pos(queue', h) = 0)
      ]_vars

(***************************************************************************)
(* C9: for every file that fails parsing or validation, whatever its       *)
(* content, the handler has written the synthetic done.json (status error, *)
(* the caught message) under its id when it goes on to delete the file.    *)
(***************************************************************************)
C9_SyntheticArtifactsWritten ==
    [][ \A h \in Handlers :
            (pc[h] # "errUnlink" /\ pc'[h] = "errUnlink")
            => /\ id'[h] \in Ids
               /\ id'[h] \in outDirs'
               /\ done'[id'[h]] = [exists |-> TRUE, status |-> "error", error |-> msg[h]]
      ]_vars

(***************************************************************************)
(* C10: the done.json a job writes has status error if and only if some    *)
(* step inside the try block threw, whatever the message of the error;     *)
(* otherwise it is {status: ok}.                                           *)
(***************************************************************************)
C10_ErrorIffThrown ==
    [][ \A h \in Handlers :
            (pc[h] = "writeDone" /\ pc'[h] # "writeDone")
            => (done'[id[h]].status = "error" <=> errorMessage[h] # NoError)
      ]_vars

(***************************************************************************)
(* C11: a failure of the creation of the session context or of a step of   *)
(* processRequest never leaves the job: the promise of the task never      *)
(* rejects, the task settles by resolving, and the outer catch of the      *)
(* add-handler (the synthetic-error path) is entered only from the read    *)
(* and normalize position, never for a job that was normalized.            *)
(***************************************************************************)
ErrorPathPcs == {"errReadJSON", "errEnsureDir", "errWriteMeta", "errWriteDone", "errUnlink"}

C11_NoErrorEscapesJob ==
    [][ \A h \in Handlers :
            /\ ~rejected'[h]
            /\ (pc[h] = "settle" /\ pc'[h] # "settle") => pc'[h] = "resolved"
            /\ (pc[h] \notin ErrorPathPcs /\ pc'[h] \in ErrorPathPcs) => pc[h] = "readJSON"
      ]_vars

\* one task resolved after a step of its processRequest threw, another one after
\* the creation of its session context threw (it has no done.json)
C11_Witness ==
    \E h, g \in Handlers :
        /\ pc[h] = "resolved"
        /\ done[id[h]].exists
        /\ done[id[h]].status = "error"
        /\ pc[g] = "resolved"
        /\ ~done[id[g]].exists

(***************************************************************************)
(* C12: every page a job acquired is closed on every exit path of the try  *)
(* block: a job that leaves the try block with a page, by finishing its    *)
(* steps or by a throw, awaits page.close() next; no job is at or past the *)
(* metadata rewrite (so none writes done.json) with a page still open; and *)
(* page.close(), returning or throwing, leaves the job's error message     *)
(* (its outcome) as it was.                                                *)
(***************************************************************************)
C12_AfterClosePcs == {"rewriteMeta", "writeDone", "unlinkClaimed", "settle", "resolved"}

C12_PageClosedOnEveryExit ==
    [][ \A h \in Handlers :
            /\ (pc[h] = "try" /\ pc'[h] # "try" /\ page'[h] = "open") => pc'[h] = "closePage"
            /\ pc'[h] \in C12_AfterClosePcs => page'[h] # "open"
            /\ (pc[h] = "closePage" /\ pc'[h] # "closePage")
                  => /\ pc'[h] = "rewriteMeta"
                     /\ page'[h] = "closed"
                     /\ errorMessage'[h] = errorMessage[h]
      ]_vars

\* two jobs have closed their page and are about to write done.json: one whose
\* steps all succeeded, one of which a step threw
C12_Witness ==
    \E h, g \in Handlers :
        /\ pc[h] = "writeDone" /\ page[h] = "closed" /\ errorMessage[h] = NoError
        /\ "screenshot.png" \in artifacts[id[h]]
        /\ pc[g] = "writeDone" /\ page[g] = "closed" /\ errorMessage[g] # NoError

(***************************************************************************)
(* C13: every artifact of responses/<id>/ is written to a temporary file   *)
(* and renamed into place: in no reachable state does a path with          *)
(* incomplete content carry the final name of an artifact.                 *)
(***************************************************************************)
C13_NoPartialArtifact ==
    \A h \in Handlers : BeingWritten(h) \cap ArtifactNames = {}

(***************************************************************************)
(* C14: meta.json of a job exists before the job acquires its page, and a  *)
(* meta.json without finishedAt never coexists with a done.json of the     *)
(* same id, also when a later delivery uses the id again: metadata without *)
(* an end time always means that the job is in flight.                     *)
(***************************************************************************)
C14_UnfinishedMetaMeansInFlight ==
    /\ \A h \in Handlers : page[h] # "none" => meta[id[h]].exists
    /\ \A i \in Ids : (meta[i].exists /\ ~meta[i].finishedAt) => ~done[i].exists

(***************************************************************************)
(* C15: when the load step (page.goto / page.setContent) throws a          *)
(* navigation timeout, the job has written none of page.html,              *)
(* screenshot.png, extract.json and goes on to close its page; from then   *)
(* on it writes no further artifact, its second meta.json has              *)
(* hadError = true and its done.json is {status: error, error: message}.   *)
(* Stated for jobs with ids of their own, so that responses/<id>/ holds    *)
(* what that job wrote.                                                    *)
(***************************************************************************)
C15_Outputs == {"page.html", "screenshot.png", "extract.json"}

C15_LoadTimeoutIsError ==
    [][ \A h \in Handlers :
            /\ (pc[h] = "try" /\ Awaited(h).op = "load"
                  /\ errorMessage'[h] = NavigationTimeout)
                  => /\ pc'[h] = "closePage"
                     /\ artifacts'[id[h]] \cap C15_Outputs = {}
            /\ errorMessage[h] = NavigationTimeout
                  => /\ artifacts'[id[h]] = artifacts[id[h]]
                     /\ (pc[h] = "rewriteMeta" /\ pc'[h] # "rewriteMeta")
                           => (meta'[id[h]].finishedAt /\ meta'[id[h]].hadError)
                     /\ (pc[h] = "writeDone" /\ pc'[h] # "writeDone")
                           => done'[id[h]] = [exists |-> TRUE, status |-> "error",
                                              error |-> NavigationTimeout]
      ]_vars

\* a job whose page was opened ended with the navigation timeout in meta.json and
\* done.json and without any output artifact
C15_Witness ==
    \E h \in Handlers :
        /\ pc[h] = "unlinkClaimed"
        /\ page[h] = "closed"
        /\ errorMessage[h] = NavigationTimeout
        /\ meta[id[h]].hadError
        /\ done[id[h]] = [exists |-> TRUE, status |-> "error", error |-> NavigationTimeout]
        /\ artifacts[id[h]] = {}

(***************************************************************************)
(* C16: from the moment a job is handed to the limiter until its execution *)
(* ends, processing/<id>.json is the claim file of that job (no other job  *)
(* removed or replaced it); once the job's execution has ended, its claim  *)
(* file is gone.                                                           *)
(***************************************************************************)
C16_ClaimFileCoversJob ==
    \A h \in Handlers :
        /\ (pc[h] = "queued" \/ pc[h] \in TaskPcs \ {"settle"}) => processing[id[h]] = h
        /\ pc[h] \in {"settle", "resolved"} => processing[id[h]] # h

(***************************************************************************)
(* C17: on shutdown the current jobs are finished first: when              *)
(* browser.close() takes the browser away, every job that was executing    *)
(* when stop() was called has written its done.json.                       *)
(***************************************************************************)
C17_MarkerWritten(h) ==
    /\ pc[h] \in {"unlinkClaimed", "settle", "resolved"}
    /\ done[id[h]].exists

C17_BrowserClosedAfterJobs ==
    [][ (browserOpen /\ ~browserOpen') => \A h \in executingAtStop : C17_MarkerWritten(h)
      ]_vars

(***************************************************************************)
(* C18: once stop() has set shuttingDown, no request file is moved into    *)
(* requests/processing/ and no job is handed to the limiter, also not by   *)
(* an add-handler that was already reading or normalizing its file.        *)
(***************************************************************************)
C18_NoClaimAfterShutdown ==
    [][ shuttingDown =>
            /\ \A i \in Ids : processing'[i] # processing[i] => processing'[i] = 0
            /\ \A h \in Handlers : pc'[h] = "queued" => pc[h] = "queued"
            /\ Len(queue') <= Len(queue)
      ]_vars

(***************************************************************************)
(* C19: the limiter is starvation-free and work-conserving.  Whenever a    *)
(* task waits while the active count is below the limit, a runNext         *)
(* callback is pending; provided every dispatched task settles, every      *)
(* enqueued task is eventually dispatched, the oldest waiting task among   *)
(* them, with no further enqueue (no enqueue step is assumed to happen).   *)
(***************************************************************************)
C19_LimiterLive ==
    /\ [](queue # << >> /\ active < limit => pendingRunNext > 0)
    /\ \A h \in Handlers : (pc[h] = "queued") ~> Dispatched(h)

\* the limiter is full, a task waits, and no runNext callback is pending: the
\* waiting task depends on the callback the settling task schedules
C19_Witness ==
    /\ active = limit
    /\ queue # << >>
    /\ pendingRunNext = 0

(***************************************************************************)
(* C20: normalizeRequest throws exactly when op is neither render_url nor  *)
(* render_html, or op is render_url with no url, or op is render_html with *)
(* no html.  Otherwise it returns a job in which each absent option takes  *)
(* its default (viewport 1280x800 scale 1, waitUntil networkidle2,         *)
(* timeoutMs 30000, fullPage, screenshot and htmlOutput true).             *)
(* As claimed: each supplied option keeps the caller's value.              *)
(* As amended: a supplied viewport or waitUntil keeps the caller's value   *)
(* unless that is falsy, and then takes the default; a supplied timeoutMs  *)
(* keeps it unless it is null, and then is 30000; a supplied fullPage,     *)
(* screenshot or htmlOutput becomes true or false by the truthiness of the *)
(* caller's value.                                                         *)
(***************************************************************************)
\* normalizeRequest was called for the file of handler h and has thrown / returned
C20_Threw(h) == pc[h] = "errReadJSON" /\ raw[h].json # "unparsable"
C20_Returned(h) == pc[h] = "rename"

C20_NoPayload(v) == v \in {Undefined, JNull, JString("")}

C20_MustThrow(r) ==
    \/ r.json = "null"
    \/ /\ r.json = "object"
       /\ \/ r.op \notin {JString("render_url"), JString("render_html")}
          \/ r.op = JString("render_url") /\ C20_NoPayload(r.url)
          \/ r.op = JString("render_html") /\ C20_NoPayload(r.html)

C20_ThrowsExactly ==
    \A h \in Handlers :
        /\ C20_Threw(h) => C20_MustThrow(raw[h])
        /\ C20_Returned(h) => (req[h].ok /\ ~C20_MustThrow(raw[h]))

C20_Defaults ==
    [viewport   |-> JObject([width |-> 1280, height |-> 800, deviceScaleFactor |-> 1]),
     fullPage   |-> JBool(TRUE),
     waitUntil  |-> JString("networkidle2"),
     timeoutMs  |-> JNumber(30000),
     screenshot |-> JBool(TRUE),
     htmlOutput |-> JBool(TRUE)]

C20_Options == {"viewport", "fullPage", "waitUntil", "timeoutMs", "screenshot", "htmlOutput"}

\* the claim as stated
C20_SuppliedValueKept ==
    /\ C20_ThrowsExactly
    /\ \A h \in Handlers :
          C20_Returned(h) =>
              \A f \in C20_Options :
                  req[h][f] = IF raw[h].opts[f] = Undefined
                              THEN C20_Defaults[f] ELSE raw[h].opts[f]

C20_Falsy == {Undefined, JNull, JNumber(0), JString(""), JBool(FALSE)}

\* the claim as amended
C20_SuppliedValueNormalized ==
    /\ C20_ThrowsExactly
    /\ \A h \in Handlers :
          C20_Returned(h) =>
              LET o == raw[h].opts
              IN  /\ \A f \in C20_Options : o[f] = Undefined => req[h][f] = C20_Defaults[f]
                  /\ \A f \in {"viewport", "waitUntil"} :
                         req[h][f] = IF o[f] \in C20_Falsy THEN C20_Defaults[f] ELSE o[f]
                  /\ req[h].timeoutMs = IF o.timeoutMs \in {Undefined, JNull}
                                        THEN C20_Defaults.timeoutMs ELSE o.timeoutMs
                  /\ \A f \in {"fullPage", "screenshot", "htmlOutput"} :
                         req[h][f] = IF o[f] = Undefined THEN JBool(TRUE)
                                     ELSE JBool(o[f] \notin C20_Falsy)

\* normalizeRequest returned a job for a request with an absent viewport, a
\* timeoutMs of 0, a waitUntil of "" and a fullPage of 0
C20_Witness ==
    \E h \in Handlers :
        /\ C20_Returned(h)
        /\ raw[h].opts.viewport = Undefined /\ req[h].viewport = C20_Defaults.viewport
        /\ raw[h].opts.timeoutMs = JNumber(0) /\ req[h].timeoutMs = JNumber(0)
        /\ raw[h].opts.waitUntil = JString("") /\ req[h].waitUntil = JString("networkidle2")
        /\ raw[h].opts.fullPage = JNumber(0) /\ req[h].fullPage = JBool(FALSE)

(***************************************************************************)
(* C21: surface configuration is best-effort: when setting the user agent, *)
(* the extra headers or the viewport settles, by returning or by throwing, *)
(* the job goes on inside the try block with no error recorded, so the     *)
(* load step still runs and the job can still end with status ok.          *)
(***************************************************************************)
C21_ConfigureSteps == {"setUserAgent", "setExtraHTTPHeaders", "setViewport"}

C21_ConfigureFailureDoesNotAbort ==
    [][\A h \in Handlers :
          (pc[h] = "try" /\ Awaited(h).op \in C21_ConfigureSteps)
          => (pc'[h] = "try" /\ errorMessage'[h] = NoError)
      ]_vars

(***************************************************************************)
(* C22: a failure while capturing the diagnostic snapshot of a step does   *)
(* not affect the job's status: when page.screenshot of a step settles, by *)
(* returning or by throwing, no error is recorded for the job and it goes  *)
(* on with the rest of the try block (or leaves it after the last step).   *)
(***************************************************************************)
C22_SnapshotFailureIsSilent ==
    [][\A h \in Handlers :
          (pc[h] = "try" /\ Awaited(h).op = "stepSnapshot")
          => /\ errorMessage'[h] = NoError
             /\ \/ pc'[h] = "try" /\ step'[h] \in {step[h], step[h] + 1}
                \/ pc'[h] = "closePage" /\ step[h] = Len(Program(req[h]))
      ]_vars

(***************************************************************************)
(* C23: a failure while writing console.log.json or network.log.json does  *)
(* not affect the job's status: while a log write is awaited and when it   *)
(* settles, by returning or by throwing, the job's error message and       *)
(* meta.json stay as the steps before left them and the job goes on to     *)
(* the next log write or to the write of done.json; and once done.json is  *)
(* written its status is error exactly when meta.json has the error flag,  *)
(* with the error message of meta.json.                                    *)
(***************************************************************************)
C23_LogPcs == {"writeConsoleLog", "writeNetworkLog"}

C23_LogFailureDoesNotAffectStatus ==
    /\ [][\A h \in Handlers :
             pc[h] \in C23_LogPcs
             => /\ pc'[h] \in {pc[h], "writeNetworkLog", "writeDone"}
                /\ errorMessage'[h] = errorMessage[h]
                /\ meta'[id[h]] = meta[id[h]]
         ]_vars
    /\ [](\A h \in Handlers :
             pc[h] \in {"unlinkClaimed", "settle"}
             => /\ done[id[h]].exists
                /\ meta[id[h]].exists /\ meta[id[h]].finishedAt
                /\ (done[id[h]].status = "error") = meta[id[h]].hadError
                /\ done[id[h]].error = meta[id[h]].errorMessage)

\* a job one of whose steps threw captured console and network events, the
\* write of console.log.json failed, and done.json was written with status error
C23_Witness ==
    \E h \in Handlers :
        /\ pc[h] = "unlinkClaimed"
        /\ consoleEvents[h] /\ networkEvents[h]
        /\ "console.log.json" \notin artifacts[id[h]]
        /\ done[id[h]].exists /\ done[id[h]].status = "error"
        /\ meta[id[h]].hadError

(***************************************************************************)
(* C24: every muteHeuristic action, the first and the later ones of a job, *)
(* clicks exactly the candidate with the highest score (+2 sound terms,    *)
(* +3 negation/mute terms, -1 acceptance terms) when that score is at      *)
(* least 3, and clicks nothing otherwise.                                  *)
(***************************************************************************)
\* the scores of the candidates of document d
C24_Scores(d) == {score(d[k]) : k \in 1..Len(d)}

\* the candidates of d a correct click may hit (0: no click)
C24_Expected(d) ==
    IF \E s \in C24_Scores(d) : s >= 3
    THEN {k \in 1..Len(d) : \A s \in C24_Scores(d) : score(d[k]) >= s}
    ELSE {0}

C24_ClicksHighestScore ==
    [][Len(clicked') > Len(clicked)
       => clicked'[Len(clicked')] \in C24_Expected(document)]_vars

(***************************************************************************)
(* C25: for a canvas that becomes painted D units after waitForCanvasPaint *)
(* starts, with poll interval I and deadline T > D, the action returns,    *)
(* at a time t with D <= t <= D + I; and if the canvas is still unpainted  *)
(* when the deadline T is exceeded, the action does not return: it throws. *)
(***************************************************************************)
\* D: the delay of the first paint after the start of the wait
C25_D == paintAt - t0

C25_PaintWaitTiming ==
    /\ (waitPc = "threw" => ~(timeoutMs > C25_D))
    /\ (waitPc = "returned" /\ timeoutMs > C25_D
          => C25_D <= now - t0 /\ now - t0 <= C25_D + intervalMs)
    /\ (waitPc = "returned" => ~(C25_D > timeoutMs + 1))

(***************************************************************************)
(* C26: for every list of extraction specs, of known and of unknown types, *)
(* the array performExtracts returns mirrors the list: one entry per spec, *)
(* at the same index, with that spec's type and selector.                  *)
(***************************************************************************)
C26_ResultsMirrorSpecs ==
    extracted # NotRun
    => /\ Len(extracted.a) = Len(specs)
       /\ \A k \in 1..Len(specs) :
             /\ extracted.a[k].type = specs[k].type
             /\ extracted.a[k].selector = specs[k].selector

(***************************************************************************)
(* C27: performExtracts yields one entry per spec of type text, attr, html *)
(* or exists, in spec order.  For text, attr and html: with the all-flag   *)
(* unset the value is null when the selector matches no element and the    *)
(* value of the first match otherwise; with the all-flag set it is the     *)
(* array of the values of the matching elements in document order (empty   *)
(* when nothing matches).  For exists the value is true exactly when some  *)
(* element matches.                                                        *)
(***************************************************************************)
\* the positions in the page of the elements selector sel matches
C27_Matches(sel) == {i \in 1..Len(elements) : elements[i].tag = sel}

\* the j-th smallest member of the set of positions S
C27_Nth(S, j) == CHOOSE i \in S : Cardinality({x \in S : x < i}) = j - 1

\* the value the entry of spec s must carry
C27_ValueOk(s, v) ==
    LET M == C27_Matches(s.selector)
    IN  IF s.type = "exists" THEN v = JBool(M # {})
        ELSE IF ~Truthy(s.all)
             THEN IF M = {} THEN v = JNull
                  ELSE v = ElementValue(s.type, elements[C27_Nth(M, 1)])
             ELSE /\ v.t = "array"
                  /\ Len(v.a) = Cardinality(M)
                  /\ \A j \in 1..Len(v.a) :
                        v.a[j] = ElementValue(s.type, elements[C27_Nth(M, j)])

C27_ExtractedValues ==
    extracted # NotRun
    => LET known == SelectSeq(specs, LAMBDA s : s.type \in ExtractTypes)
       IN  /\ Len(extracted.a) = Len(known)
           /\ \A k \in 1..Len(known) :
                 /\ extracted.a[k].type = known[k].type
                 /\ C27_ValueOk(known[k], extracted.a[k].value)

\* on a page with two links of different text, a single text spec for links got
\* the text of the first and a text spec that matches nothing got null
C27_Witness ==
    /\ extracted # NotRun
    /\ elements = <<ElementA, ElementANoHref>>
    /\ Len(specs) = 2
    /\ specs[1] = [type |-> "text", selector |-> "a", all |-> Undefined]
    /\ specs[2] = [type |-> "text", selector |-> "h1", all |-> Undefined]
    /\ extracted.a[1].value = JString(<<"y">>)
    /\ extracted.a[2].value = JNull

(***************************************************************************)
(* C28: every render option of BaseOpts that a caller passes to renderURL  *)
(* or renderHTML is carried unchanged into the request file the call       *)
(* writes to the inbox.                                                    *)
(***************************************************************************)
\* the field of the request file an option is carried in
C28_RawField(r, f) ==
    CASE f = "id" -> r.id
      [] f = "sessionId" -> r.sessionId
      [] f \in DOMAIN r.opts -> r.opts[f]
      [] OTHER -> r.job[f]

C28_Carried == RenderOpts \ {"id", "clientTimeoutMs", "pollIntervalMs"}

C28_OptionsReachRequestFile ==
    \A h \in Handlers :
        clientPc[h] # "idle"
        => \A f \in C28_Carried :
              clientOpts[h][f] # Undefined => C28_RawField(raw[h], f) = clientOpts[h][f]

(***************************************************************************)
(* C29: renderURL / renderHTML settle only after done.json of their id is  *)
(* readable: a call resolves with the marker only when the marker read is  *)
(* ok, rejects with the errorMessage of the server-side meta.json exactly  *)
(* when the marker read is an error, and rejects with a timeout error only *)
(* while no marker is there.                                               *)
(***************************************************************************)
C29_Outcome ==
    \A h \in Handlers :
        /\ clientPc[h] = "resolved"
           => clientDone[h].exists /\ clientDone[h].status = "ok"
        /\ clientPc[h] = "rejected"
           => IF clientDone[h].exists
              THEN clientDone[h].status = "error"
              ELSE clientError[h] = "Timeout waiting for done.json"

C29_Rejects ==
    \A h \in Handlers :
        /\ clientPc[h] = "readMeta" /\ clientPc'[h] = "rejected"
           => /\ meta[ClientId(h)].exists
              /\ clientError'[h] = meta[ClientId(h)].errorMessage
        /\ clientPc[h] = "waitForDone" /\ clientPc'[h] = "rejected"
           => ~done[ClientId(h)].exists
        /\ clientPc[h] = "waitForDone" /\ clientPc'[h] \in {"resolved", "readMeta"}
           => clientDone'[h] = done[ClientId(h)] /\ done[ClientId(h)].exists

C29_SettlesOnMarker == []C29_Outcome /\ [][C29_Rejects]_vars

(***************************************************************************)
(* C30: within one job the steps run in the order configure, load,         *)
(* post-load delay, the actions in list order (each followed by its step   *)
(* snapshot when snapshots are on), content snapshot, image snapshot,      *)
(* extraction; a step starts only when the previous one returned, and      *)
(* after the first failure no step of the job runs any more: the job goes  *)
(* straight to the release of its page.                                    *)
(***************************************************************************)
C30_Phase(s) ==
    CASE s.op \in {"newPage", "setUserAgent", "setExtraHTTPHeaders", "setViewport"} -> 1
      [] s.op = "load" -> 2
      [] s.op = "postWait" -> 3
      [] s.op \in {"action", "stepSnapshot"} -> 4
      [] s.op \in {"content", "writeHtml"} -> 5
      [] s.op = "screenshot" -> 6
      [] s.op \in {"performExtracts", "writeExtract"} -> 7

\* step t may start when step s of request r returned
C30_Follows(r, s, t) ==
    /\ C30_Phase(s) <= C30_Phase(t)
    /\ C30_Phase(s) \in {2, 3, 6} => C30_Phase(s) < C30_Phase(t)
    /\ s.op = "action" /\ r.screenshotOnEachAction.b => t = ActionStep("stepSnapshot", s.i)
    /\ t.op = "stepSnapshot" => s = ActionStep("action", t.i) /\ r.screenshotOnEachAction.b
    /\ t.op = "action" => IF C30_Phase(s) = 4 THEN t.i = s.i + 1 ELSE t.i = 1
    /\ C30_Phase(s) = 4 /\ C30_Phase(t) > 4 => s.i = Len(ActionsOf(r))
    /\ C30_Phase(s) < 4 /\ C30_Phase(t) > 4 => ActionsOf(r) = << >>
    /\ s.op = "content" <=> t.op = "writeHtml"
    /\ s.op = "performExtracts" <=> t.op = "writeExtract"

C30_NoStepAfterFailure ==
    \A h \in Handlers :
        /\ pc[h] = "try" => errorMessage[h] = NoError /\ step[h] \in 1..Len(Program(req[h]))
        /\ pc[h] # "try" => step[h] = 0

C30_StepByStep ==
    \A h \in Handlers :
        /\ pc[h] # "try" /\ pc'[h] = "try"
           => step'[h] = 1 /\ Program(req'[h])[1].op = "newPage"
        /\ pc[h] = "try"
           => \/ pc'[h] = "try" /\ step'[h] = step[h] /\ errorMessage'[h] = NoError
              \/ /\ pc'[h] = "try" /\ step'[h] = step[h] + 1 /\ errorMessage'[h] = NoError
                 /\ req'[h] = req[h]
                 /\ C30_Follows(req[h], Awaited(h), Program(req[h])[step'[h]])
              \/ /\ pc'[h] \in {"closePage", "rewriteMeta"} /\ step'[h] = 0
                 /\ errorMessage'[h] = NoError => step[h] = Len(Program(req[h]))
                 /\ pc'[h] = "rewriteMeta" => page[h] # "open"

C30_OrderedFailFast == []C30_NoStepAfterFailure /\ [][C30_StepByStep]_vars

\* the second action of a job is awaited after the first action and its step
\* snapshot returned
C30_Witness ==
    \E h \in Handlers :
        /\ pc[h] = "try" /\ Awaited(h) = ActionStep("action", 2)
        /\ req[h].screenshotOnEachAction.b
        /\ StepFile(1, ".png") \in artifacts[id[h]]

(***************************************************************************)
(* C31: the post-load delay a job waits is min(postWaitMs, 300000) ms when *)
(* the requested postWaitMs is > 0, and there is no delay when postWaitMs  *)
(* is absent, 0 or negative; the delay comes right after the load step and *)
(* before the first action.                                                *)
(***************************************************************************)
\* the delay the request file of handler h asks for (0: none)
C31_Requested(h) ==
    LET w == raw[h].job.postWaitMs
    IN  IF w.t = "number" /\ w.n > 0
        THEN (IF w.n <= 300000 THEN w.n ELSE 300000)
        ELSE 0

C31_Delay ==
    \A h \in Handlers :
        pc[h] = "try" /\ Awaited(h).op = "postWait"
        => Awaited(h).i = C31_Requested(h) /\ Awaited(h).i > 0

C31_Position ==
    \A h \in Handlers :
        pc[h] = "try" /\ pc'[h] = "try" /\ step'[h] # step[h] /\ raw'[h] = raw[h]
        => LET s == Awaited(h)
               t == Program(req[h])[step'[h]]
           IN  /\ s.op = "load" => (t.op = "postWait" <=> C31_Requested(h) > 0)
               /\ t.op = "postWait" => s.op = "load"
               /\ s.op = "postWait" /\ ActionsOf(req[h]) # << >> => t = ActionStep("action", 1)
               /\ t.op = "action" /\ t.i = 1 /\ C31_Requested(h) > 0 => s.op = "postWait"

C31_PostLoadDelay == []C31_Delay /\ [][C31_Position]_vars

\* a job that asked for more than the ceiling waits its clamped delay
C31_Witness ==
    \E h \in Handlers :
        /\ pc[h] = "try" /\ Awaited(h).op = "postWait"
        /\ raw[h].job.postWaitMs = JNumber(400000)
        /\ Awaited(h).i = 300000

(***************************************************************************)
(* C32: a sample of waitForCanvasPaint is false when the page has no       *)
(* canvas; true when the canvas has no 2d context or when reading its      *)
(* pixels throws; otherwise true iff some pixel of the top-left            *)
(* min(64, width) x min(64, height) region has alpha # 0 and is not pure   *)
(* white.                                                                  *)
(***************************************************************************)
\* the coloured pixels of the canvas that lie in the sampled region
C32_Region(c) ==
    { q \in DOMAIN c.pixels :
        /\ q[1] < 64 /\ q[1] < c.width
        /\ q[2] < 64 /\ q[2] < c.height }

C32_ReadThrows(c) == c.tainted \/ c.width = 0 \/ c.height = 0

C32_Expected(c) ==
    CASE c = NoCanvas -> FALSE
      [] c # NoCanvas /\ c.context # "2d" -> TRUE
      [] c # NoCanvas /\ c.context = "2d" /\ C32_ReadThrows(c) -> TRUE
      [] OTHER -> \E q \in C32_Region(c) :
                     /\ c.pixels[q].a # 0
                     /\ c.pixels[q] # Rgba(255, 255, 255, c.pixels[q].a)

C32_SampleDecision == sample # NotRun => sample = JBool(C32_Expected(canvas))

\* a sample that is false although the canvas has an opaque pixel that is not
\* white: the pixel lies outside the region
C32_Witness ==
    /\ sample = JBool(FALSE)
    /\ canvas # NoCanvas
    /\ \E q \in DOMAIN canvas.pixels : canvas.pixels[q] = Rgba(255, 255, 254, 255)

(***************************************************************************)
(* C33: whatever id and element-snapshot file name a request carries, every*)
(* path the job writes to lies inside the job's own directory, and that    *)
(* directory is a direct child of the responses root.                      *)
(***************************************************************************)
\* path p lies inside directory d
C33_Inside(p, d) == Len(p) > Len(d) /\ SubSeq(p, 1, Len(d)) = d

C33_OutputsStayInJobDirectory ==
    pathJob # NotRun /\ written # {}
    => /\ Dirname(OutDir(pathJob.id)) = RESPONSES_DIR
       /\ Len(OutDir(pathJob.id)) = Len(RESPONSES_DIR) + 1
       /\ \A p \in written : C33_Inside(p, OutDir(pathJob.id))

(***************************************************************************)
(* C34: the promise enqueue(task) returned settles exactly once, only      *)
(* after the task's own promise settled, and with the task's outcome:      *)
(* resolved when the task resolved, rejected with the task's error when it *)
(* rejected; a rejecting task frees its slot, so tasks that wait are       *)
(* dispatched.                                                             *)
(***************************************************************************)
\* the promise of enqueue is resolved / rejected
C34_Resolved(h) == pc[h] = "resolved"
C34_Rejected(h) == pc[h] = "errReadJSON"

C34_Settling ==
    \A h \in Handlers :
        /\ (C34_Resolved(h) \/ C34_Rejected(h))
           => pc'[h] = pc[h] /\ msg'[h] = msg[h]
        /\ pc[h] \in {"none", "queued", "running"}
           => ~(C34_Resolved(h))' /\ ~(C34_Rejected(h))'
        /\ pc[h] = "settle" /\ pc'[h] # "settle"
           => /\ (C34_Resolved(h))' <=> ~rejected[h]
              /\ (C34_Rejected(h))' <=> rejected[h]
              /\ rejected[h] => msg'[h] = errorMessage[h]
              /\ active' = active - 1

C34_Dispatched == \A h \in Handlers : (pc[h] = "queued") ~> (pc[h] # "queued")

C34_EnqueueOutcome == [][C34_Settling]_vars /\ C34_Dispatched

\* a task was rejected and, the limit being 1, a task that waited behind it runs
C34_Witness ==
    \E g, h \in Handlers :
        /\ limit = 1
        /\ pc[g] = "errReadJSON" /\ msg[g] = NavigationTimeout
        /\ pc[h] = "running"

(***************************************************************************)
(* C35: in every state of the limiter 0 <= active <= N, and active is the  *)
(* number of dispatched tasks whose settlement the limiter has not yet     *)
(* handled; whenever the wait list is non-empty and active < N a runNext   *)
(* call is pending; once every enqueued task has settled, active is 0 and  *)
(* the wait list is empty.                                                 *)
(***************************************************************************)
C35_InFlight == { h \in Handlers : pc[h] \in {"running", "settle"} }

C35_AllSettled == \A h \in Handlers : pc[h] \in {"none", "resolved", "errReadJSON"}

C35_LimiterInvariant ==
    /\ 0 <= active /\ active <= limit
    /\ active = Cardinality(C35_InFlight)
    /\ queue # << >> /\ active < limit => pendingRunNext > 0
    /\ C35_AllSettled => active = 0 /\ queue = << >>
    /\ \A h \in Handlers : pc[h] = "queued" <=> \E k \in 1..Len(queue) : queue[k] = h

\* a slot was freed while a task waits: the runNext call that will dispatch it
\* is pending
C35_Witness ==
    /\ queue # << >>
    /\ active < limit
    /\ \E h \in Handlers : pc[h] \in {"resolved", "errReadJSON"}

(***************************************************************************)
(* C36: an action whose type is not one of the eleven kinds, or that lacks *)
(* a field its kind requires, is skipped: no page operation is awaited for *)
(* it, it cannot fail the job, the actions after it still run, and with    *)
(* step tracing on it still gets its numbered step snapshot.               *)
(***************************************************************************)
C36_Kinds ==
    {"waitForSelector", "click", "hover", "type", "press", "clickAt", "waitForTime",
     "waitForFunction", "waitForCanvasPaint", "muteHeuristic", "screenshotElement"}

C36_Missing(v) == v = Undefined

\* the action is not of a known kind or lacks what its kind requires
C36_Skipped(a) ==
    \/ a.type \notin C36_Kinds
    \/ a.type \in {"waitForSelector", "click", "hover", "screenshotElement"} /\ C36_Missing(a.selector)
    \/ a.type = "type" /\ (C36_Missing(a.selector) \/ a.text.t # "string")
    \/ a.type = "clickAt" /\ (a.x.t # "number" \/ a.y.t # "number")
    \/ a.type = "waitForTime" /\ a.ms.t # "number"
    \/ a.type = "waitForFunction" /\ C36_Missing(a.fn)
    \/ a.type = "press" /\ C36_Missing(a.key)

\* the step that follows step s in the action phase of request r: s is the
\* load (index 0) or a step of action s.i
C36_After(r, s) ==
    LET as == ActionsOf(r)
        snap == r.screenshotOnEachAction.b
        k == IF s.op \in {"action", "stepSnapshot"} THEN s.i ELSE 0
        rest == { j \in (k + 1)..Len(as) : snap \/ ~C36_Skipped(as[j]) }
        j == CHOOSE n \in rest : \A n2 \in rest : n <= n2
    IN  IF s.op = "action" /\ snap THEN ActionStep("stepSnapshot", k)
        ELSE IF rest = {} THEN Step("content")
        ELSE IF C36_Skipped(as[j]) THEN ActionStep("stepSnapshot", j)
        ELSE ActionStep("action", j)

C36_NoOperation ==
    \A h \in Handlers :
        pc[h] = "try" /\ Awaited(h).op = "action"
        => ~C36_Skipped(ActionsOf(req[h])[Awaited(h).i])

C36_RestRuns ==
    \A h \in Handlers :
        /\ pc[h] = "try" /\ pc'[h] = "try" /\ step'[h] # step[h]
        /\ Awaited(h).op \in {"load", "action", "stepSnapshot"}
        => Program(req[h])[step'[h]] = C36_After(req[h], Awaited(h))

C36_MalformedActionSkipped == []C36_NoOperation /\ [][C36_RestRuns]_vars

\* the first action was skipped, its step snapshot was taken, and the second
\* action runs
C36_Witness ==
    \E h \in Handlers :
        /\ pc[h] = "try" /\ Awaited(h) = ActionStep("action", 2)
        /\ C36_Skipped(ActionsOf(req[h])[1])
        /\ StepFile(1, ".png") \in artifacts[id[h]]
====
